---- MODULE Spec2Model ----
(***************************************************************************)
(* Conversation orchestration pipeline of sada999: the cached data-query   *)
(* gateway (services/data_api.py), the entity gate                         *)
(* (services/entity_extractor.py), the reply composer                      *)
(* (services/response_generator.py), the session registry                  *)
(* (services/session_manager.py), the conversation store                   *)
(* (services/conversation_manager.py) and the HTTP handlers (main.py).     *)
(*                                                                         *)
(* Conventions.  A Python str that the program builds or prints is a       *)
(* sequence of string tokens (concatenation is \o).  A Python dict whose   *)
(* insertion order matters (the entities mapping) is a sequence of         *)
(* <<key, value>> items with distinct keys; any other dict is a function   *)
(* from its keys.  An entity value is [list |-> TRUE, v |-> <<...>>] for a *)
(* Python list of str and [list |-> FALSE, v |-> <<s>>] for the str s.     *)
(* time.time() is the variable now, in whole seconds.                      *)
(***************************************************************************)
EXTENDS Integers, Sequences, FiniteSets, TLC

VARIABLES
    cache,          \* DataAPI.cache: cache key -> [data, timestamp]
    now,            \* the clock read by time.time()
    qobs,           \* what the last query_data call did and returned
    sessions,       \* SessionManager.active_sessions: session_id -> record
    sobs,           \* what the last session operation did and returned
    convs,          \* ConversationManager.active_conversations
    history,        \* ConversationManager.conversation_history
    cobs,           \* what the last conversation operation did and returned
    inp,            \* arguments handed to a pure function under check
    out,            \* what the pure function returned for inp
    storage,        \* ConversationManager.storage: the configuration read at start
    inflight        \* the webhook requests in flight: request -> call and position

vars == <<cache, now, qobs, sessions, sobs, convs, history, cobs, inp, out, storage, inflight>>

-----------------------------------------------------------------------------
(* Python values *)

\* The empty dict {}.
EmptyDict == [k \in {} |-> <<>>]

\* The str s as an entity value.
Scalar(s) == [list |-> FALSE, v |-> <<s>>]

\* The list of str l as an entity value.
ListOf(l) == [list |-> TRUE, v |-> l]

\* Python truthiness of an entity value: "" and [] are falsy.
Truthy(val) == IF val.list THEN val.v # <<>> ELSE val.v[1] # ""

\* Keys of an entities mapping, `param in entities`.
Keys(e) == {e[i][1] : i \in 1..Len(e)}

\* entities[param].
Get(e, k) == e[CHOOSE i \in 1..Len(e) : e[i][1] = k][2]

\* Every str of the model, in the order Python's < gives them (code points).
Lex == <<"", "A1", "B2", "D1", "T1", "account_id", "currency", "date",
         "doctor_name", "id", "limit", "location", "query", "service_type",
         "time", "tracking_id">>

Rank(s) == CHOOSE i \in 1..Len(Lex) : Lex[i] = s

StrLess(a, b) == Rank(a) < Rank(b)

\* ", ".join(parts) with an arbitrary separator token.
RECURSIVE Join(_, _)
Join(parts, sep) ==
    IF parts = <<>> THEN <<>>
    ELSE IF Len(parts) = 1 THEN <<parts[1]>>
    ELSE <<parts[1], sep>> \o Join(Tail(parts), sep)

\* Concatenation of a sequence of token sequences with a separator token.
RECURSIVE JoinSeqs(_, _)
JoinSeqs(parts, sep) ==
    IF parts = <<>> THEN <<>>
    ELSE IF Len(parts) = 1 THEN parts[1]
    ELSE parts[1] \o <<sep>> \o JoinSeqs(Tail(parts), sep)

\* The elements of a sequence.
Range(s) == {s[i] : i \in 1..Len(s)}

-----------------------------------------------------------------------------
(* services/data_api.py *)

\* self.cache_ttl, CACHE_TTL defaults to 3600.
cache_ttl == 3600

DefinedIntents ==
    {"appointment_booking", "shipment_inquiry", "account_balance", "general_inquiry"}

\* query_definitions[intent]["required_params"], in list order.
required_params(intent) ==
    CASE intent = "appointment_booking" -> <<"date", "time", "service_type">>
      [] intent = "shipment_inquiry" -> <<"tracking_id">>
      [] intent = "account_balance" -> <<"account_id">>
      [] intent = "general_inquiry" -> <<"query">>

\* query_definitions[intent]["optional_params"], in list order.
optional_params(intent) ==
    CASE intent = "appointment_booking" -> <<"doctor_name", "location">>
      [] intent = "shipment_inquiry" -> <<>>
      [] intent = "account_balance" -> <<"currency">>
      [] intent = "general_inquiry" -> <<"category", "limit">>

\* query_definitions[intent]["response_mapping"]: source field -> target field,
\* as a sequence of <<source, target>> in dict order.
response_mapping(intent) ==
    CASE intent = "appointment_booking" ->
            << <<"appointment_id", "id">>, <<"appointment_date", "date">>,
               <<"appointment_time", "time">>, <<"doctor_name", "doctor">>,
               <<"status", "status">> >>
      [] intent = "shipment_inquiry" ->
            << <<"tracking_number", "tracking_id">>, <<"status", "status">>,
               <<"location", "current_location">>,
               <<"estimated_delivery", "estimated_delivery_date">>,
               <<"carrier", "carrier">> >>
      [] intent = "account_balance" ->
            << <<"account_id", "account_id">>, <<"balance", "balance">>,
               <<"currency", "currency">>, <<"last_updated", "last_updated">> >>
      [] intent = "general_inquiry" ->
            << <<"results", "results">>, <<"total_count", "total">> >>

\* ParamMissing without the emptiness test.
ParamMissing_AbsentOnly(e, param) == param \notin Keys(e)

\* `if param not in entities or not entities[param]` (data_api.py line 117).
ParamMissing(e, param) == param \notin Keys(e) \/ ~Truthy(Get(e, param))

\* The missing_entities list query_data builds, in required_params order.
GatewayMissing(intent, e) ==
    SelectSeq(required_params(intent), LAMBDA p : ParamMissing(e, p))

\* SortedValue that leaves lists in extraction order.
SortedValue_Unsorted(val) == val

\* sorted(v) if isinstance(v, list) else v
SortedValue(val) ==
    IF val.list THEN ListOf(SortSeq(val.v, StrLess)) ELSE val

\* {k: sorted(v) if isinstance(v, list) else v for k, v in sorted(entities.items())}
SortedEntities(e) ==
    LET byKey == SortSeq(e, LAMBDA a, b : StrLess(a[1], b[1]))
    IN  [i \in 1..Len(byKey) |-> <<byKey[i][1], SortedValue(byKey[i][2])>>]

\* json.dumps of a str: the text between double quotes.
DumpStr(s) == <<"\"", s, "\"">>

\* json.dumps of an entity value: a str, or a list of str joined by ", ".
DumpValue(val) ==
    IF val.list
    THEN <<"[">> \o JoinSeqs([i \in 1..Len(val.v) |-> DumpStr(val.v[i])], ", ")
               \o <<"]">>
    ELSE DumpStr(val.v[1])

\* json.dumps(sorted_entities, sort_keys=True): the items are already in key
\* order, so sort_keys changes nothing.
DumpEntities(se) ==
    <<"{">> \o JoinSeqs([i \in 1..Len(se) |->
                            DumpStr(se[i][1]) \o <<": ">> \o DumpValue(se[i][2])],
                        ", ")
            \o <<"}">>

\* DataAPI._generate_cache_key: f"{intent}_{entities_str}".
_generate_cache_key(intent, e) ==
    <<intent, "_">> \o DumpEntities(SortedEntities(e))

\* An entry that is still served when exactly cache_ttl old.
CacheLive_AtTtl(entry, t) == t - entry.timestamp <= cache_ttl

\* `time.time() - cached_data["timestamp"] < self.cache_ttl`
CacheLive(entry, t) == t - entry.timestamp < cache_ttl

\* What DataAPI._get_from_cache returns: the stored data of a live entry, or
\* None (found = FALSE) when the key is absent or its entry has expired.
_get_from_cache(c, key, t) ==
    IF key \in DOMAIN c /\ CacheLive(c[key], t)
    THEN [found |-> TRUE, data |-> c[key].data]
    ELSE [found |-> FALSE, data |-> EmptyDict]

\* The cache after DataAPI._get_from_cache: an expired entry of this key is
\* deleted, nothing else changes.
CacheAfterGet(c, key, t) ==
    IF key \in DOMAIN c /\ ~CacheLive(c[key], t)
    THEN [k \in DOMAIN c \ {key} |-> c[k]]
    ELSE c

\* `if cached_result:` in query_data: None and the empty dict are both falsy.
CachedResultUsable(got) == got.found /\ got.data # EmptyDict

\* _set_cache that does not store error results.
_set_cache_SkipErrors(c, key, data, t) ==
    IF "error" \in DOMAIN data THEN c
    ELSE [k \in DOMAIN c \cup {key} |->
            IF k = key THEN [data |-> data, timestamp |-> t] ELSE c[k]]

\* DataAPI._set_cache.
_set_cache(c, key, data, t) ==
    [k \in DOMAIN c \cup {key} |->
        IF k = key THEN [data |-> data, timestamp |-> t] ELSE c[k]]

\* `entities[param][0] if isinstance(entities[param], list) else entities[param]`
\* raises IndexError on an empty list.
ParamRaises(e, param) ==
    param \in Keys(e) /\ Get(e, param).list /\ Get(e, param).v = <<>>

\* The params _build_query_params puts in the request, in insertion order.
QueryParamNames(intent, e) ==
    SelectSeq(required_params(intent) \o optional_params(intent),
              LAMBDA p : p \in Keys(e))

BuildRaises(intent, e) ==
    \E i \in 1..Len(QueryParamNames(intent, e)) :
        ParamRaises(e, QueryParamNames(intent, e)[i])

\* DataAPI._build_query_params: list values collapse to their first element.
_build_query_params(intent, e) ==
    [p \in Range(QueryParamNames(intent, e)) |-> Get(e, p).v[1]]

\* DataAPI._map_response: known source fields are renamed, then the fields
\* that are no source field of the mapping are copied under their own name.
_map_response(response, mapping) ==
    LET sources == {mapping[i][1] : i \in 1..Len(mapping)}
        hit(x)  == {i \in 1..Len(mapping) :
                        mapping[i][2] = x /\ mapping[i][1] \in DOMAIN response}
        renamed == {mapping[i][2] : i \in {j \in 1..Len(mapping) :
                                            mapping[j][1] \in DOMAIN response}}
        passed  == DOMAIN response \ sources
        last(S) == CHOOSE i \in S : \A j \in S : j <= i
    IN  [x \in renamed \cup passed |->
            IF x \in passed THEN response[x]
            ELSE response[mapping[last(hit(x))][1]]]

StatusError_NoDetails(code) ==
    [error |-> <<"status ", code>>]

\* The error dict _execute_query returns for a non-200 status.
StatusError(code) ==
    [error |-> <<"status ", code>>, details |-> <<"body of ", code>>]

\* What the data backend can answer to one request.
BackendBodies ==
    { EmptyDict,
      [tracking_number |-> <<"A1">>, eta |-> <<"D1">>] }

BackendOutcomes ==
    [kind : {"ok"}, body : BackendBodies]
    \cup {[kind |-> k, body |-> EmptyDict] : k \in {"http500", "timeout", "malformed"}}

\* The answers of the backend together with a transport failure that is no
\* timeout (requests.exceptions.RequestException).
FailureOutcomes ==
    BackendOutcomes \cup {[kind |-> "transport", body |-> EmptyDict]}

\* An outcome on which _execute_query raises instead of returning: a 200 body
\* that is no JSON object makes response.items() raise in _map_response.
ExecuteRaises(outcome) == outcome.kind = "malformed"

\* DataAPI._execute_query for a defined intent (GET or POST).
_execute_query(intent, outcome) ==
    CASE outcome.kind = "ok" -> _map_response(outcome.body, response_mapping(intent))
      [] outcome.kind = "http500" -> StatusError("500")
      [] outcome.kind = "timeout" -> [error |-> <<"timeout">>]
      [] outcome.kind = "transport" -> [error |-> <<"transport: ", "connection refused">>]
      [] OTHER -> [error |-> <<"exception">>]

\* The result of the `except Exception` branch of query_data.
ExceptionResult == [error |-> <<"exception">>]

\* The result of query_data for an intent without query definition.
UnknownIntentResult(intent) == [error |-> <<"no query definition: ", intent>>]

\* The result of query_data when required params are missing.
MissingResult(missing) ==
    [error |-> <<"missing: ">> \o Join(missing, ", "),
     missing_entities |-> missing]

\* DataAPI.query_data on cache c at time t, the backend answering `outcome` if
\* it is asked: the returned dict, the cache afterwards, whether the cache was
\* read or written and whether (and with which params) the backend was called.
query_data(c, t, intent, e, outcome) ==
    LET quiet == [ret |-> EmptyDict, cache |-> c, read |-> FALSE, write |-> FALSE,
                  backend |-> FALSE, request |-> EmptyDict]
    IN
    IF intent \notin DefinedIntents
    THEN [quiet EXCEPT !.ret = UnknownIntentResult(intent)]
    ELSE IF GatewayMissing(intent, e) # <<>>
    THEN [quiet EXCEPT !.ret = MissingResult(GatewayMissing(intent, e))]
    ELSE
      LET key == _generate_cache_key(intent, e)
          got == _get_from_cache(c, key, t)
          c1  == CacheAfterGet(c, key, t)
      IN
      IF CachedResultUsable(got)
      THEN [quiet EXCEPT !.ret = got.data, !.read = TRUE]
      ELSE IF BuildRaises(intent, e)
      THEN [quiet EXCEPT !.ret = ExceptionResult, !.cache = c1, !.read = TRUE]
      ELSE IF ExecuteRaises(outcome)
      THEN [ret |-> ExceptionResult, cache |-> c1, read |-> TRUE, write |-> FALSE,
            backend |-> TRUE, request |-> _build_query_params(intent, e)]
      ELSE [ret |-> _execute_query(intent, outcome),
            cache |-> _set_cache(c1, key, _execute_query(intent, outcome), t),
            read |-> TRUE, write |-> TRUE,
            backend |-> TRUE, request |-> _build_query_params(intent, e)]

\* DataAPI.clear_cache.
clear_cache(c) == [k \in {} |-> 0]

-----------------------------------------------------------------------------
(* The clock *)

\* Steps of the clock: one second, and one second less than the TTL / the
\* default sweep timeout, so that 3599, 3600 and 3601 seconds all elapse.
TickSteps == {1, cache_ttl - 1}

\* How many clock steps lie behind time t.
Ticks(t) == (t % (cache_ttl - 1)) + (t \div (cache_ttl - 1))

MaxTicks == 2

\* time.time() advances while at most `bound` clock steps lie behind it
TickWithin(bound) ==
    /\ Ticks(now) < bound
    /\ \E d \in TickSteps : now' = now + d

Idle == [op |-> "none"]

\* int(os.getenv("MAX_HISTORY", "50"))
default_max_history == 50

-----------------------------------------------------------------------------
(* The data gateway as a state machine *)

\* The (intent, entities) pairs handed to query_data: an intent without
\* definition; a tracking id that is absent, a str, a list in two element
\* orders, an empty str, an empty list; a booking with nothing and with only
\* a date.
QueryInputs ==
    { [intent |-> "no_such_intent", entities |-> << <<"tracking_id", Scalar("A1")>> >>],
      [intent |-> "shipment_inquiry", entities |-> <<>>],
      [intent |-> "shipment_inquiry", entities |-> << <<"tracking_id", Scalar("A1")>> >>],
      [intent |-> "shipment_inquiry",
       entities |-> << <<"tracking_id", ListOf(<<"A1", "B2">>)>> >>],
      [intent |-> "shipment_inquiry",
       entities |-> << <<"tracking_id", ListOf(<<"B2", "A1">>)>> >>],
      [intent |-> "shipment_inquiry", entities |-> << <<"tracking_id", Scalar("")>> >>],
      [intent |-> "shipment_inquiry", entities |-> << <<"tracking_id", ListOf(<<>>)>> >>],
      [intent |-> "appointment_booking", entities |-> <<>>],
      [intent |-> "appointment_booking",
       entities |-> << <<"date", ListOf(<<"D1">>)>> >>] }

InitData ==
    /\ cache = [k \in {} |-> 0]
    /\ now = 0
    /\ qobs = Idle
    /\ sessions = <<>>
    /\ sobs = Idle
    /\ convs = <<>>
    /\ history = [k \in {} |-> 0]
    /\ cobs = Idle
    /\ inp = Idle
    /\ out = Idle
    /\ storage = [max_history |-> default_max_history]
    /\ inflight = <<>>

\* time passes
Tick ==
    /\ TickWithin(MaxTicks)
    /\ qobs' = Idle
    /\ sobs' = Idle
    /\ cobs' = Idle
    /\ UNCHANGED <<cache, sessions, convs, history, inp, out, storage, inflight>>

\* one call of DataAPI.query_data, the backend answering one of `outcomes`
Query(outcomes) ==
    \E q \in QueryInputs, outcome \in outcomes :
        LET r == query_data(cache, now, q.intent, q.entities, outcome) IN
        /\ cache' = r.cache
        /\ qobs' = [op |-> "query_data", intent |-> q.intent, entities |-> q.entities,
                    ret |-> r.ret, read |-> r.read, write |-> r.write,
                    backend |-> r.backend, request |-> r.request,
                    outcome |-> IF r.backend THEN outcome.kind ELSE "none"]
        /\ UNCHANGED <<now, sessions, sobs, convs, history, cobs, inp, out, storage, inflight>>

\* one call of DataAPI.clear_cache
ClearCache ==
    /\ cache' = clear_cache(cache)
    /\ qobs' = [op |-> "clear_cache"]
    /\ UNCHANGED <<now, sessions, sobs, convs, history, cobs, inp, out, storage, inflight>>

QueryData == Query(BackendOutcomes)

NextData == Tick \/ QueryData \/ ClearCache

SpecData == InitData /\ [][NextData]_vars

-----------------------------------------------------------------------------
(* Claims about the data gateway *)

\* The cache key of the last query_data call, when it passed the gate.
LastKey(o) == _generate_cache_key(o.intent, o.entities)

\* A required param that is absent from e or present with an empty value.
AbsentOrEmpty(e, p) ==
    \/ \A i \in 1..Len(e) : e[i][1] # p
    \/ \E i \in 1..Len(e) : e[i][1] = p /\ e[i][2] \in {Scalar(""), ListOf(<<>>)}

\* The last step was a query_data call whose params satisfy the intent's
\* required params.
SatisfiedQuery(o) ==
    /\ o.op = "query_data"
    /\ o.intent \in DefinedIntents
    /\ \A i \in 1..Len(required_params(o.intent)) :
            ~AbsentOrEmpty(o.entities, required_params(o.intent)[i])

\* C1: a query_data call made while a result stored for the same (intent,
\* entities) less than cache_ttl ago is in the cache does not invoke the
\* backend and returns the stored result, whatever that result is; a call made
\* cache_ttl or more after the result was stored invokes the backend again.
C1_CacheIdempotence ==
    [][ (SatisfiedQuery(qobs') /\ LastKey(qobs') \in DOMAIN cache) =>
            IF now - cache[LastKey(qobs')].timestamp < cache_ttl
            THEN ~qobs'.backend /\ qobs'.ret = cache[LastKey(qobs')].data
            ELSE qobs'.backend ]_vars

\* C3: a query_data call with a required param absent or empty sends no backend
\* request, neither reads nor writes the cache, and returns a missing-entities
\* result listing exactly the absent-or-empty required params.
C3_MissingGate ==
    [][ ( /\ qobs'.op = "query_data"
          /\ qobs'.intent \in DefinedIntents
          /\ \E i \in 1..Len(required_params(qobs'.intent)) :
                AbsentOrEmpty(qobs'.entities, required_params(qobs'.intent)[i]) )
        =>
        ( /\ cache' = cache
          /\ ~qobs'.backend /\ ~qobs'.read /\ ~qobs'.write
          /\ "missing_entities" \in DOMAIN qobs'.ret
          /\ Range(qobs'.ret.missing_entities) =
                {p \in Range(required_params(qobs'.intent)) :
                    AbsentOrEmpty(qobs'.entities, p)} ) ]_vars

\* A call was gated: a booking with only a date was rejected for time and
\* service_type while the cache held an entry, and a present-but-empty
\* tracking id was rejected too.
C3_Witness ==
    /\ qobs.op = "query_data"
    /\ "missing_entities" \in DOMAIN qobs.ret
    /\ cache # clear_cache(cache)
    /\ \/ /\ qobs.intent = "appointment_booking"
          /\ Keys(qobs.entities) = {"date"}
          /\ qobs.ret.missing_entities = <<"time", "service_type">>
       \/ /\ qobs.intent = "shipment_inquiry"
          /\ Keys(qobs.entities) = {"tracking_id"}

-----------------------------------------------------------------------------
(* The cache key as a function of its arguments *)

KeyNames == {"date", "tracking_id"}

KeyValues ==
    { Scalar("A1"), Scalar(""), ListOf(<<>>), ListOf(<<"A1">>),
      ListOf(<<"A1", "B2">>), ListOf(<<"B2", "A1">>) }

\* Every entities mapping over KeyNames and KeyValues, in every key order.
KeyEntities ==
    {<<>>}
    \cup {<< <<k, v>> >> : k \in KeyNames, v \in KeyValues}
    \cup {<< <<k[1], v[1]>>, <<k[2], v[2]>> >> :
            k \in {x \in KeyNames \X KeyNames : x[1] # x[2]},
            v \in KeyValues \X KeyValues}

InitKey ==
    /\ InitData!1 /\ InitData!2 /\ InitData!3 /\ InitData!4 /\ InitData!5
    /\ InitData!6 /\ InitData!7 /\ InitData!8
    /\ inp \in [op : {"key"}, intent : {"shipment_inquiry", "appointment_booking"},
                e1 : KeyEntities, e2 : KeyEntities]
    /\ out = Idle
    /\ InitData!11 /\ InitData!12

\* the key of each of the two mappings is generated
GenerateKeys ==
    /\ out = Idle
    /\ out' = [op |-> "key",
               k1 |-> _generate_cache_key(inp.intent, inp.e1),
               k2 |-> _generate_cache_key(inp.intent, inp.e2)]
    /\ UNCHANGED <<cache, now, qobs, sessions, sobs, convs, history, cobs, inp, storage, inflight>>

NextKey == GenerateKeys

SpecKey == InitKey /\ [][NextKey]_vars

\* How often x occurs in the list l.
Count(l, x) == Cardinality({i \in 1..Len(l) : l[i] = x})

\* Two entity values are the same str, or lists with the same elements in
\* some order.
SameValue(a, b) ==
    /\ a.list = b.list
    /\ IF a.list
       THEN Len(a.v) = Len(b.v)
            /\ \A x \in Range(a.v) \cup Range(b.v) : Count(a.v, x) = Count(b.v, x)
       ELSE a.v = b.v

\* Two mappings hold the same keys with the same values.
SameEntities(e1, e2) ==
    /\ Keys(e1) = Keys(e2)
    /\ \A k \in Keys(e1) : SameValue(Get(e1, k), Get(e2, k))

\* C2: for one intent, two entities mappings get the same cache key exactly
\* when they hold the same keys with the same values, whatever the order of
\* the keys and of the elements of list values.
C2_KeyCanonical ==
    out.op = "key" => ((out.k1 = out.k2) <=> SameEntities(inp.e1, inp.e2))

\* Keys were generated for two mappings that differ in key order and in the
\* element order of a list, and they are the same key.
C2_Witness ==
    /\ out.op = "key"
    /\ inp.e1 = << <<"tracking_id", ListOf(<<"A1", "B2">>)>>, <<"date", Scalar("A1")>> >>
    /\ inp.e2 = << <<"date", Scalar("A1")>>, <<"tracking_id", ListOf(<<"B2", "A1">>)>> >>
    /\ out.k1 = out.k2

-----------------------------------------------------------------------------
(* services/session_manager.py *)

\* Python's None where a str is expected.
None == "None"

\* Python's None where a record (a dict) is expected.
NoRecord == [none |-> TRUE]

\* d[k] = v on a dict d.
Put(d, k, v) == [x \in DOMAIN d \cup {k} |-> IF x = k THEN v ELSE d[x]]

\* d.update(patch)
Update(d, patch) ==
    [x \in DOMAIN d \cup DOMAIN patch |-> IF x \in DOMAIN patch THEN patch[x] ELSE d[x]]

\* A store (active_sessions, active_conversations) is a Python dict from ids to
\* records: a sequence of <<id, record>> in insertion order.
Ids(S) == {S[i][1] : i \in 1..Len(S)}

IndexOf(S, id) == CHOOSE i \in 1..Len(S) : S[i][1] = id

\* S.get(id): the record, or None.
Lookup(S, id) == IF id \in Ids(S) THEN S[IndexOf(S, id)][2] ELSE NoRecord

\* S[id] = rec: an existing key keeps its place, a new key goes last.
Store(S, id, rec) ==
    IF id \in Ids(S)
    THEN [S EXCEPT ![IndexOf(S, id)] = <<id, rec>>]
    ELSE Append(S, <<id, rec>>)

\* SessionManager.create_session: the new record replaces whatever was stored
\* under session_id.  start_time, which is written here and never read or
\* written again, is left out of the record.
create_session(S, session_id, from_number, call_sid, t) ==
    Store(S, session_id,
          [session_id |-> session_id, from_number |-> from_number,
           call_sid |-> call_sid, last_activity |-> t,
           language |-> None, status |-> "active"])

\* SessionManager.get_session
get_session(S, session_id) == Lookup(S, session_id)

\* SessionManager.get_session_by_call_sid: the first record, in dict order, with
\* this call_sid, whatever its status.
get_session_by_call_sid(S, call_sid) ==
    LET hits == {i \in 1..Len(S) : S[i][2].call_sid = call_sid}
    IN  IF hits = {} THEN NoRecord
        ELSE S[CHOOSE i \in hits : \A j \in hits : i <= j][2]

\* SessionManager.update_session: the store afterwards.
update_session(S, session_id, kwargs, t) ==
    IF session_id \notin Ids(S) THEN S
    ELSE Store(S, session_id,
               Put(Update(Lookup(S, session_id), kwargs), "last_activity", t))

\* SessionManager.end_session: the store afterwards.
end_session(S, session_id, t) ==
    IF session_id \notin Ids(S) THEN S
    ELSE Store(S, session_id,
               Put(Put(Lookup(S, session_id), "status", "ended"), "end_time", t))

\* SessionManager.get_active_sessions_count
get_active_sessions_count(S) ==
    Cardinality({i \in 1..Len(S) : S[i][2].status = "active"})

\* TimedOut that also fires at exactly timeout_seconds.
TimedOut_AtTimeout(rec, timeout_seconds, t) == t - rec.last_activity >= timeout_seconds

\* `current_time - session["last_activity"] > timeout_seconds`
TimedOut(rec, timeout_seconds, t) == t - rec.last_activity > timeout_seconds

\* The sessions cleanup_inactive_sessions ends, by position in the store.
SweptSessions(S, timeout_seconds, t) ==
    {i \in 1..Len(S) : S[i][2].status = "active" /\ TimedOut(S[i][2], timeout_seconds, t)}

\* SessionManager.cleanup_inactive_sessions: the store afterwards and the
\* returned cleaned_count.
cleanup_inactive_sessions(S, timeout_seconds, t) ==
    [store |-> [i \in 1..Len(S) |->
                    IF i \in SweptSessions(S, timeout_seconds, t)
                    THEN <<S[i][1], Put(Put(S[i][2], "status", "ended"), "end_time", t)>>
                    ELSE S[i]],
     count |-> Cardinality(SweptSessions(S, timeout_seconds, t))]

-----------------------------------------------------------------------------
(* The session registry as a state machine *)

\* str(uuid.uuid4()) values for sessions, in the order the model hands them out.
SessionIdOrder == <<"session-1", "session-2">>

SessionIds == Range(SessionIdOrder)

\* uuid4 returns an id that is not in use; the model takes the first one of
\* order that the store S does not hold.
Fresh(order, S) ==
    order[CHOOSE i \in 1..Len(order) :
              /\ order[i] \notin Ids(S)
              /\ \A j \in 1..(i - 1) : order[j] \in Ids(S)]

FreshSession(S) == Fresh(SessionIdOrder, S)

CallSids == {"CA1", "CA2"}

FromNumbers == {"+9665"}

\* kwargs of update_session: none, the detected language, or a status.
SessionPatches == {[k \in {} |-> 0], [language |-> "en"], [status |-> "active"]}

\* timeout_seconds: the default, and one second.
default_timeout == 3600

SweepTimeouts == {default_timeout, 1}

\* The instants at which the session clock is read: at the last one, sessions
\* idle for 3599, 3600 and 3601 seconds exist side by side.
SessionInstants == {0, 1, 2, default_timeout + 1}

\* time passes
TickSession ==
    /\ \E t \in SessionInstants : t > now /\ now' = t
    /\ sobs' = Idle
    /\ UNCHANGED <<cache, qobs, sessions, convs, history, cobs, inp, out, storage, inflight>>

\* POST /start_call (main.py): a session with a new id is created for the
\* request's call_sid, whatever sessions exist.
StartCall ==
    /\ Ids(sessions) # SessionIds
    /\ \E from \in FromNumbers, call \in CallSids :
        /\ sessions' = create_session(sessions, FreshSession(sessions), from, call, now)
        /\ sobs' = [op |-> "start_call", ret |-> "success"]
    /\ UNCHANGED <<cache, now, qobs, convs, history, cobs, inp, out, storage, inflight>>

\* POST /twilio_webhook (main.py): the session of the call_sid is looked up and
\* one is created only if there is none; the turn then runs on it.
Webhook ==
    \E from \in FromNumbers, call \in CallSids :
        IF get_session_by_call_sid(sessions, call) = NoRecord
        THEN /\ Ids(sessions) # SessionIds
             /\ sessions' = create_session(sessions, FreshSession(sessions), from, call, now)
             /\ sobs' = [op |-> "webhook", ret |-> FreshSession(sessions)]
             /\ UNCHANGED <<cache, now, qobs, convs, history, cobs, inp, out, storage, inflight>>
        ELSE /\ sobs' = [op |-> "webhook",
                         ret |-> get_session_by_call_sid(sessions, call).session_id]
             /\ UNCHANGED <<cache, now, qobs, sessions, convs, history, cobs, inp, out, storage, inflight>>

\* SessionManager.create_session called with a session_id of the caller's choice
CreateSession ==
    \E sid \in SessionIds, from \in FromNumbers, call \in CallSids :
        /\ sessions' = create_session(sessions, sid, from, call, now)
        /\ sobs' = [op |-> "create_session", ret |-> sid]
        /\ UNCHANGED <<cache, now, qobs, convs, history, cobs, inp, out, storage, inflight>>

\* SessionManager.update_session
UpdateSession ==
    \E sid \in SessionIds, kwargs \in SessionPatches :
        /\ sessions' = update_session(sessions, sid, kwargs, now)
        /\ sobs' = [op |-> "update_session", ok |-> sid \in Ids(sessions)]
        /\ UNCHANGED <<cache, now, qobs, convs, history, cobs, inp, out, storage, inflight>>

\* SessionManager.end_session
EndSession ==
    \E sid \in SessionIds :
        /\ sessions' = end_session(sessions, sid, now)
        /\ sobs' = [op |-> "end_session", ok |-> sid \in Ids(sessions)]
        /\ UNCHANGED <<cache, now, qobs, convs, history, cobs, inp, out, storage, inflight>>

\* SessionManager.cleanup_inactive_sessions
CleanupSessions ==
    \E timeout \in SweepTimeouts :
        /\ sessions' = cleanup_inactive_sessions(sessions, timeout, now).store
        /\ sobs' = [op |-> "cleanup_inactive_sessions", timeout |-> timeout,
                    ret |-> cleanup_inactive_sessions(sessions, timeout, now).count]
        /\ UNCHANGED <<cache, now, qobs, convs, history, cobs, inp, out, storage, inflight>>

InitSession ==
    /\ InitData!1 /\ InitData!2 /\ InitData!3 /\ InitData!5
    /\ InitData!6 /\ InitData!7 /\ InitData!8 /\ InitData!9 /\ InitData!10
    /\ InitData!11 /\ InitData!12
    /\ sessions = <<>>

NextSession ==
    \/ TickSession \/ StartCall \/ Webhook \/ CreateSession
    \/ UpdateSession \/ EndSession \/ CleanupSessions

SpecSession == InitSession /\ [][NextSession]_vars

-----------------------------------------------------------------------------
(* Claims about the session registry *)

\* C6: cleanup_inactive_sessions(timeout) ends exactly the sessions that were
\* active and idle for strictly more than timeout, changes no other record
\* (ended ones included), removes none, and returns how many it ended.
C6_SweepExact ==
    [][ sobs'.op = "cleanup_inactive_sessions" =>
        LET idle == {i \in 1..Len(sessions) :
                        /\ sessions[i][2].status = "active"
                        /\ now - sessions[i][2].last_activity > sobs'.timeout}
        IN  /\ Len(sessions') = Len(sessions)
            /\ \A i \in idle :
                    /\ sessions'[i][1] = sessions[i][1]
                    /\ sessions'[i][2].status = "ended"
            /\ \A i \in (1..Len(sessions)) \ idle : sessions'[i] = sessions[i]
            /\ sobs'.ret = Cardinality(idle) ]_vars

\* A sweep with timeout 3600 has just ended one session, idle for 3601 s, and
\* kept a session idle for 3599 s.
C6_Witness ==
    /\ sobs.op = "cleanup_inactive_sessions"
    /\ sobs.timeout = 3600
    /\ sobs.ret = 1
    /\ \E i, j \in 1..Len(sessions) :
        /\ sessions[i][2].status = "ended"
        /\ sessions[i][2].end_time = now
        /\ now - sessions[i][2].last_activity = 3601
        /\ sessions[j][2].status = "active"
        /\ now - sessions[j][2].last_activity = 3599

\* C8: no two active sessions share a call identifier.
C8_OneActivePerCall ==
    \A i, j \in 1..Len(sessions) :
        ( /\ i # j
          /\ sessions[i][2].status = "active"
          /\ sessions[j][2].status = "active" )
        => sessions[i][2].call_sid # sessions[j][2].call_sid

-----------------------------------------------------------------------------
(* services/conversation_manager.py *)

\* lst[start:] of a Python list, for any integer start.
SliceFrom(lst, start) ==
    LET n == Len(lst)
        s == IF start < 0
             THEN (IF n + start < 0 THEN 0 ELSE n + start)
             ELSE (IF start > n THEN n ELSE start)
    IN  SubSeq(lst, s + 1, n)

\* The conversation_info record start_conversation builds.
conversation_info(conversation_id, phone_number, session_id, t) ==
    [conversation_id |-> conversation_id, phone_number |-> phone_number,
     session_id |-> session_id, start_time |-> t, last_activity |-> t,
     language |-> "ar", status |-> "active", context |-> EmptyDict,
     transcripts |-> <<>>, responses |-> <<>>,
     metadata |-> [total_turns |-> 0, total_duration |-> 0,
                   satisfaction_rating |-> None]]

\* ConversationManager.start_conversation with the uuid4 it drew: the two
\* stores afterwards and the returned record.
start_conversation(C, H, conversation_id, phone_number, session_id, t) ==
    [convs |-> Store(C, conversation_id,
                     conversation_info(conversation_id, phone_number, session_id, t)),
     history |-> Put(H, conversation_id, <<>>),
     ret |-> conversation_info(conversation_id, phone_number, session_id, t)]

\* ConversationManager.get_conversation
get_conversation(C, conversation_id) == Lookup(C, conversation_id)

\* ConversationManager.update_conversation: the store afterwards and the
\* returned bool.
update_conversation(C, conversation_id, kwargs, t) ==
    IF conversation_id \notin Ids(C) THEN [convs |-> C, ret |-> FALSE]
    ELSE [convs |-> Store(C, conversation_id,
                          Put(Update(Lookup(C, conversation_id), kwargs),
                              "last_activity", t)),
          ret |-> TRUE]

\* A turn that is not counted.
CountTurn_Skipped(metadata) == metadata

\* `metadata["total_turns"] += 1`
CountTurn(metadata) == [metadata EXCEPT !.total_turns = @ + 1]

\* `if len(transcripts) > max_history: transcripts = transcripts[-max_history:]`
TrimTranscripts(transcripts, max_history) ==
    IF Len(transcripts) > max_history
    THEN SliceFrom(transcripts, 0 - max_history)
    ELSE transcripts

\* ConversationManager.add_transcript: the two stores afterwards and the
\* returned bool.
add_transcript(C, H, max_history, conversation_id, text, language, confidence, t) ==
    IF conversation_id \notin Ids(C) THEN [convs |-> C, history |-> H, ret |-> FALSE]
    ELSE
        LET rec == Lookup(C, conversation_id)
            transcript == [timestamp |-> t, text |-> text, language |-> language,
                           confidence |-> confidence]
        IN  [convs |-> Store(C, conversation_id,
                             [rec EXCEPT
                                !.transcripts = TrimTranscripts(Append(@, transcript),
                                                                max_history),
                                !.metadata = CountTurn(@)]),
             history |-> [H EXCEPT ![conversation_id] =
                              Append(@, [type |-> "transcript", data |-> transcript])],
             ret |-> TRUE]

\* ConversationManager.add_response: the two stores afterwards and the
\* returned bool.
add_response(C, H, conversation_id, text, audio_url, intent, entities, t) ==
    IF conversation_id \notin Ids(C) THEN [convs |-> C, history |-> H, ret |-> FALSE]
    ELSE
        LET rec == Lookup(C, conversation_id)
            response == [timestamp |-> t, text |-> text, audio_url |-> audio_url,
                         intent |-> intent, entities |-> entities]
        IN  [convs |-> Store(C, conversation_id,
                             [rec EXCEPT !.responses = Append(@, response)]),
             history |-> [H EXCEPT ![conversation_id] =
                              Append(@, [type |-> "response", data |-> response])],
             ret |-> TRUE]

\* An update_context that starts a record for an id the store does not hold.
update_context_Creating(C, conversation_id, context) ==
    [convs |-> Store(C, conversation_id,
                     IF conversation_id \in Ids(C)
                     THEN [Lookup(C, conversation_id) EXCEPT
                              !.context = Update(@, context)]
                     ELSE [conversation_id |-> conversation_id, context |-> context]),
     ret |-> TRUE]

\* An update_context that replaces the context by its argument.
update_context_Replacing(C, conversation_id, context) ==
    IF conversation_id \notin Ids(C) THEN [convs |-> C, ret |-> FALSE]
    ELSE [convs |-> Store(C, conversation_id,
                          [Lookup(C, conversation_id) EXCEPT !.context = context]),
          ret |-> TRUE]

\* ConversationManager.update_context: the store afterwards and the returned
\* bool.
update_context(C, conversation_id, context) ==
    IF conversation_id \notin Ids(C) THEN [convs |-> C, ret |-> FALSE]
    ELSE [convs |-> Store(C, conversation_id,
                          [Lookup(C, conversation_id) EXCEPT
                              !.context = Update(@, context)]),
          ret |-> TRUE]

\* What end_conversation writes into a record.
EndedConversation(rec, reason, t) ==
    [Update(rec, [status |-> "ended", end_time |-> t, end_reason |-> reason])
        EXCEPT !.metadata.total_duration = t - rec.start_time]

\* An end_conversation that drops the record from the store.
end_conversation_Removing(C, conversation_id, reason, t) ==
    IF conversation_id \notin Ids(C) THEN [convs |-> C, ret |-> FALSE]
    ELSE [convs |-> SelectSeq(C, LAMBDA e : e[1] # conversation_id), ret |-> TRUE]

\* ConversationManager.end_conversation: the store afterwards and the returned
\* bool.
end_conversation(C, conversation_id, reason, t) ==
    IF conversation_id \notin Ids(C) THEN [convs |-> C, ret |-> FALSE]
    ELSE [convs |-> Store(C, conversation_id,
                          EndedConversation(Lookup(C, conversation_id), reason, t)),
          ret |-> TRUE]

\* ConversationManager.get_conversation_context
get_conversation_context(C, conversation_id) ==
    IF conversation_id \in Ids(C) THEN Lookup(C, conversation_id).context ELSE EmptyDict

\* ConversationManager.get_last_transcript
get_last_transcript(C, conversation_id) ==
    IF conversation_id \notin Ids(C) THEN NoRecord
    ELSE LET transcripts == Lookup(C, conversation_id).transcripts
         IN  IF transcripts # <<>> THEN transcripts[Len(transcripts)] ELSE NoRecord

\* ConversationManager.get_active_conversations_count
get_active_conversations_count(C) ==
    Cardinality({i \in 1..Len(C) : C[i][2].status = "active"})

\* The conversations cleanup_inactive_conversations ends, by position.
SweptConversations(C, timeout_seconds, t) ==
    {i \in 1..Len(C) :
        C[i][2].status = "active" /\ t - C[i][2].last_activity > timeout_seconds}

\* ConversationManager.cleanup_inactive_conversations: end_conversation(id,
\* "timeout") on every selected record; the store afterwards and the returned
\* cleaned_count.
cleanup_inactive_conversations(C, timeout_seconds, t) ==
    [convs |-> [i \in 1..Len(C) |->
                    IF i \in SweptConversations(C, timeout_seconds, t)
                    THEN <<C[i][1], EndedConversation(C[i][2], "timeout", t)>>
                    ELSE C[i]],
     ret |-> Cardinality(SweptConversations(C, timeout_seconds, t))]

-----------------------------------------------------------------------------
(* The conversation store as a state machine *)

\* str(uuid.uuid4()) values for conversations, in the order they are drawn.
ConvIdOrder == <<"conv-1">>

ConvIds == Range(ConvIdOrder)

\* an id no conversation was started with
UnknownConversation == "conv-9"

ConvArgs == ConvIds \cup {UnknownConversation}

\* MAX_HISTORY is any of 0..MaxKeep.
MaxKeep == 2

MaxHistoryConfigs == 0..MaxKeep

\* A conversation's history is appended to while it is shorter than MaxLog.
MaxLog == 3

Texts == {"t1", "t2"}

ResponseTexts == {"r1"}

\* context arguments of update_context
ContextPatches == {[date |-> "D1"]}

\* kwargs of update_conversation
ConversationPatches == {[context |-> EmptyDict]}

\* timeout_seconds of cleanup_inactive_conversations
default_conversation_timeout == 3600

ConvInstants == {0, default_conversation_timeout + 1}

InitConv ==
    /\ InitData!1 /\ InitData!2 /\ InitData!3 /\ InitData!4 /\ InitData!5
    /\ InitData!6 /\ InitData!7 /\ InitData!8 /\ InitData!9 /\ InitData!10
    /\ storage \in [max_history : MaxHistoryConfigs]
    /\ InitData!12

\* time passes
TickConv ==
    /\ \E t \in ConvInstants : t > now /\ now' = t
    /\ cobs' = Idle
    /\ UNCHANGED <<cache, qobs, sessions, sobs, convs, history, inp, out, storage, inflight>>

StartConversation ==
    /\ Ids(convs) # ConvIds
    /\ LET r == start_conversation(convs, history, Fresh(ConvIdOrder, convs),
                                   "+9665", "session-1", now)
       IN  /\ convs' = r.convs
           /\ history' = r.history
           /\ cobs' = [op |-> "start_conversation", id |-> r.ret.conversation_id,
                       ret |-> TRUE]
    /\ UNCHANGED <<cache, now, qobs, sessions, sobs, inp, out, storage, inflight>>

AddTranscript ==
    \E cid \in ConvArgs, text \in Texts :
        /\ cid \in DOMAIN history => Len(history[cid]) < MaxLog
        /\ LET r == add_transcript(convs, history, storage.max_history,
                                   cid, text, "ar", 0, now)
           IN  /\ convs' = r.convs
               /\ history' = r.history
               /\ cobs' = [op |-> "add_transcript", id |-> cid, ret |-> r.ret]
        /\ UNCHANGED <<cache, now, qobs, sessions, sobs, inp, out, storage, inflight>>

AddResponse ==
    \E cid \in ConvArgs, text \in ResponseTexts :
        /\ cid \in DOMAIN history => Len(history[cid]) < MaxLog
        /\ LET r == add_response(convs, history, cid, text, "", "", EmptyDict, now)
           IN  /\ convs' = r.convs
               /\ history' = r.history
               /\ cobs' = [op |-> "add_response", id |-> cid, ret |-> r.ret]
        /\ UNCHANGED <<cache, now, qobs, sessions, sobs, inp, out, storage, inflight>>

UpdateContext ==
    \E cid \in ConvArgs, context \in ContextPatches :
        /\ convs' = update_context(convs, cid, context).convs
        /\ cobs' = [op |-> "update_context", id |-> cid,
                    ret |-> update_context(convs, cid, context).ret]
        /\ UNCHANGED <<cache, now, qobs, sessions, sobs, history, inp, out, storage, inflight>>

UpdateConversation ==
    \E cid \in ConvArgs, kwargs \in ConversationPatches :
        /\ convs' = update_conversation(convs, cid, kwargs, now).convs
        /\ cobs' = [op |-> "update_conversation", id |-> cid,
                    ret |-> update_conversation(convs, cid, kwargs, now).ret]
        /\ UNCHANGED <<cache, now, qobs, sessions, sobs, history, inp, out, storage, inflight>>

EndConversation ==
    \E cid \in ConvArgs :
        /\ convs' = end_conversation(convs, cid, "completed", now).convs
        /\ cobs' = [op |-> "end_conversation", id |-> cid,
                    ret |-> end_conversation(convs, cid, "completed", now).ret]
        /\ UNCHANGED <<cache, now, qobs, sessions, sobs, history, inp, out, storage, inflight>>

CleanupConversations ==
    /\ convs' = cleanup_inactive_conversations(convs, default_conversation_timeout,
                                               now).convs
    /\ cobs' = [op |-> "cleanup_inactive_conversations", id |-> None,
                ret |-> cleanup_inactive_conversations(
                            convs, default_conversation_timeout, now).ret > 0]
    /\ UNCHANGED <<cache, now, qobs, sessions, sobs, history, inp, out, storage, inflight>>

NextConv ==
    \/ TickConv \/ StartConversation \/ AddTranscript \/ AddResponse
    \/ UpdateContext \/ UpdateConversation \/ EndConversation
    \/ CleanupConversations

SpecConv == InitConv /\ [][NextConv]_vars

-----------------------------------------------------------------------------
(* Claims about the conversation store *)

\* The data of the transcript entries of a history, oldest first.
Appended(h) ==
    LET t == SelectSeq(h, LAMBDA e : e.type = "transcript")
    IN  [i \in 1..Len(t) |-> t[i].data]

\* The last n entries of a list, all of it if it is shorter.
LastN(lst, n) ==
    IF Len(lst) <= n THEN lst ELSE SubSeq(lst, Len(lst) - n + 1, Len(lst))

\* C9: a conversation's transcripts list holds at most max_history entries and
\* they are exactly the most recently appended ones, in append order.
C9_BoundedLog ==
    \A i \in 1..Len(convs) :
        /\ Len(convs[i][2].transcripts) <= storage.max_history
        /\ convs[i][2].transcripts =
               LastN(Appended(history[convs[i][1]]), storage.max_history)

-----------------------------------------------------------------------------
(* The life cycle of sessions and conversations, side by side *)

LifeConvIdOrder == <<"conv-1", "conv-2">>

LifeInstants == {0, default_timeout + 1}

\* time passes
LifeTick ==
    /\ \E t \in LifeInstants : t > now /\ now' = t
    /\ sobs' = Idle
    /\ cobs' = Idle
    /\ UNCHANGED <<cache, qobs, sessions, convs, history, inp, out, storage, inflight>>

LifeCreateSession ==
    \E sid \in SessionIds :
        /\ sessions' = create_session(sessions, sid, "+9665", "CA1", now)
        /\ sobs' = [op |-> "create_session", ret |-> sid]
        /\ cobs' = Idle
        /\ UNCHANGED <<cache, now, qobs, convs, history, inp, out, storage, inflight>>

LifeUpdateSession ==
    \E sid \in SessionIds :
        /\ sessions' = update_session(sessions, sid, [language |-> "en"], now)
        /\ sobs' = [op |-> "update_session", ok |-> sid \in Ids(sessions)]
        /\ cobs' = Idle
        /\ UNCHANGED <<cache, now, qobs, convs, history, inp, out, storage, inflight>>

LifeEndSession ==
    \E sid \in SessionIds :
        /\ sessions' = end_session(sessions, sid, now)
        /\ sobs' = [op |-> "end_session", ok |-> sid \in Ids(sessions)]
        /\ cobs' = Idle
        /\ UNCHANGED <<cache, now, qobs, convs, history, inp, out, storage, inflight>>

LifeSweepSessions ==
    /\ sessions' = cleanup_inactive_sessions(sessions, default_timeout, now).store
    /\ sobs' = [op |-> "cleanup_inactive_sessions", timeout |-> default_timeout,
                ret |-> cleanup_inactive_sessions(sessions, default_timeout, now).count]
    /\ cobs' = Idle
    /\ UNCHANGED <<cache, now, qobs, convs, history, inp, out, storage, inflight>>

LifeStartConversation ==
    /\ Ids(convs) # Range(LifeConvIdOrder)
    /\ LET r == start_conversation(convs, history, Fresh(LifeConvIdOrder, convs),
                                   "+9665", "session-1", now)
       IN  /\ convs' = r.convs
           /\ history' = r.history
           /\ cobs' = [op |-> "start_conversation", id |-> r.ret.conversation_id,
                       ret |-> TRUE]
    /\ sobs' = Idle
    /\ UNCHANGED <<cache, now, qobs, sessions, inp, out, storage, inflight>>

LifeUpdateConversation ==
    \E cid \in Range(LifeConvIdOrder), kwargs \in ConversationPatches :
        /\ convs' = update_conversation(convs, cid, kwargs, now).convs
        /\ cobs' = [op |-> "update_conversation", id |-> cid,
                    ret |-> update_conversation(convs, cid, kwargs, now).ret]
        /\ sobs' = Idle
        /\ UNCHANGED <<cache, now, qobs, sessions, history, inp, out, storage, inflight>>

LifeEndConversation ==
    \E cid \in Range(LifeConvIdOrder) :
        /\ convs' = end_conversation(convs, cid, "completed", now).convs
        /\ cobs' = [op |-> "end_conversation", id |-> cid,
                    ret |-> end_conversation(convs, cid, "completed", now).ret]
        /\ sobs' = Idle
        /\ UNCHANGED <<cache, now, qobs, sessions, history, inp, out, storage, inflight>>

LifeSweepConversations ==
    /\ convs' = cleanup_inactive_conversations(convs, default_conversation_timeout,
                                               now).convs
    /\ cobs' = [op |-> "cleanup_inactive_conversations", id |-> None,
                ret |-> cleanup_inactive_conversations(
                            convs, default_conversation_timeout, now).ret > 0]
    /\ sobs' = Idle
    /\ UNCHANGED <<cache, now, qobs, sessions, history, inp, out, storage, inflight>>

NextLife ==
    \/ LifeTick
    \/ LifeCreateSession \/ LifeUpdateSession \/ LifeEndSession \/ LifeSweepSessions
    \/ LifeStartConversation \/ LifeUpdateConversation \/ LifeEndConversation
    \/ LifeSweepConversations

SpecLife == InitData /\ [][NextLife]_vars

\* Records a and b agree on every field outside fields, and b has no other
\* new field.
SameBut(a, b, fields) ==
    /\ DOMAIN a \subseteq DOMAIN b
    /\ DOMAIN b \subseteq DOMAIN a \cup fields
    /\ \A k \in DOMAIN a \ fields : a[k] = b[k]

\* C7: no step removes a session or a conversation record (get_session and
\* get_conversation keep returning every record they returned before), and a
\* step that ends or sweeps changes a record only by setting its status to
\* ended together with the end stamp (end_time, end_reason, total_duration).
C7_NeverRemoved ==
    [][ /\ \A sid \in Ids(sessions) : get_session(sessions', sid) # NoRecord
        /\ \A cid \in Ids(convs) : get_conversation(convs', cid) # NoRecord
        /\ sobs'.op \in {"end_session", "cleanup_inactive_sessions"} =>
            \A sid \in Ids(sessions) :
                \/ get_session(sessions', sid) = get_session(sessions, sid)
                \/ /\ get_session(sessions', sid).status = "ended"
                   /\ SameBut(get_session(sessions, sid), get_session(sessions', sid),
                              {"status", "end_time"})
        /\ cobs'.op \in {"end_conversation", "cleanup_inactive_conversations"} =>
            \A cid \in Ids(convs) :
                \/ get_conversation(convs', cid) = get_conversation(convs, cid)
                \/ /\ get_conversation(convs', cid).status = "ended"
                   /\ SameBut(get_conversation(convs, cid), get_conversation(convs', cid),
                              {"status", "end_time", "end_reason", "metadata"})
                   /\ SameBut(get_conversation(convs, cid).metadata,
                              get_conversation(convs', cid).metadata,
                              {"total_duration"}) ]_vars

\* A sweep has just ended a conversation, another conversation and a session
\* were ended explicitly, a second session was ended by an earlier sweep, and
\* all four records are still returned.
C7_Witness ==
    /\ cobs.op = "cleanup_inactive_conversations" /\ cobs.ret
    /\ \E c1, c2 \in Ids(convs) :
        /\ get_conversation(convs, c1).status = "ended"
        /\ get_conversation(convs, c1).end_reason = "timeout"
        /\ get_conversation(convs, c2).status = "ended"
        /\ get_conversation(convs, c2).end_reason = "completed"
    /\ \E s1, s2 \in Ids(sessions) :
        /\ s1 # s2
        /\ get_session(sessions, s1).status = "ended"
        /\ get_session(sessions, s1).end_time = 0
        /\ get_session(sessions, s2).status = "ended"
        /\ get_session(sessions, s2).end_time = default_timeout + 1

-----------------------------------------------------------------------------
(* services/entity_extractor.py: the required-entity gate *)

\* self.intent_required_entities
intent_required_entities(intent) ==
    CASE intent = "appointment_booking" -> <<"date", "time", "service_type">>
      [] intent = "shipment_inquiry" -> <<"id">>
      [] intent = "account_balance" -> <<"account_id">>
      [] intent = "general_inquiry" -> <<>>

GateIntents ==
    {"appointment_booking", "shipment_inquiry", "account_balance", "general_inquiry"}

\* EntityExtractor._check_required_entities on an entities dict from entity
\* type to list of values: the required types that are absent or empty, in
\* the order of the table.
_check_required_entities(intent, entities) ==
    IF intent \in GateIntents
    THEN SelectSeq(intent_required_entities(intent),
                   LAMBDA entity : entity \notin DOMAIN entities \/ entities[entity] = <<>>)
    ELSE <<>>

-----------------------------------------------------------------------------
(* services/response_generator.py *)

\* The methods are modelled from their first definition in the file (up to
\* line 476); what follows it is a damaged second copy of the same methods.

\* The keys of self.response_templates.
TemplateIntents ==
    {"greeting", "goodbye", "appointment_booking", "shipment_inquiry",
     "account_balance", "general_inquiry", "error", "missing_entities"}

\* The placeholders of the templates of an intent, the same in every language
\* and every variant.
TemplateSlots(intent) ==
    CASE intent = "appointment_booking" -> <<"date", "time", "doctor_name">>
      [] intent = "shipment_inquiry" -> <<"status", "location", "estimated_delivery">>
      [] intent = "account_balance" -> <<"balance", "currency", "last_updated">>
      [] intent = "general_inquiry" -> <<"results">>
      [] intent = "missing_entities" -> <<"missing_entities">>
      [] OTHER -> <<>>

\* The branch `if language == "ar" ... elif language == "en" ... else` takes.
Phrasing(language) == IF language \in {"ar", "en"} THEN language ELSE "fr"

\* ResponseGenerator._generate_fallback_response
_generate_fallback_response(language) ==
    <<"Sorry, I couldn't understand your request.", Phrasing(language)>>

\* ResponseGenerator._generate_error_response: the error text between the
\* fixed words of the language.
_generate_error_response(language, error) ==
    <<"Sorry, an error occurred: ", Phrasing(language)>> \o error
        \o <<". Please try again later.">>

\* The separator of the entity names: the Arabic comma for ar.
Separator(language) == IF language = "ar" THEN "<arabic comma> " ELSE ", "

\* A clarification that names only the first missing entity.
_generate_missing_entities_response_FirstOnly(language, missing_entities) ==
    <<"I need additional information: ", Phrasing(language)>>
        \o <<missing_entities[1]>> \o <<". Please provide it.">>

\* ResponseGenerator._generate_missing_entities_response: the joined names
\* between the fixed words of the language.
_generate_missing_entities_response(language, missing_entities) ==
    <<"I need additional information: ", Phrasing(language)>>
        \o Join(missing_entities, Separator(language))
        \o <<". Please provide it.">>

\* The variants of a template list; random.choice draws one of them.
TemplateChoices == {"1", "2", "3"}

\* _select_template with en as the language of last resort.
_select_template_EnglishDefault(intent, language, context, choice) ==
    [intent |-> intent,
     language |-> IF language \in {"ar", "en", "fr"} THEN language ELSE "en",
     variant |-> IF language \in {"ar", "en", "fr"} /\ context = EmptyDict
                 THEN choice ELSE "1"]

\* ResponseGenerator._select_template: the language whose list is used and
\* the variant: the first one with a context, random.choice(choice) without.
_select_template(intent, language, context, choice) ==
    [intent |-> intent,
     language |-> IF language \in {"ar", "en", "fr"} THEN language ELSE "ar",
     variant |-> IF language \in {"ar", "en", "fr"} /\ context = EmptyDict
                 THEN choice ELSE "1"]

\* The text of a template with its placeholders, one token each.
TemplateText(template) ==
    <<"template", template.intent, template.language, template.variant>>
        \o [i \in 1..Len(TemplateSlots(template.intent)) |->
                "{placeholder}"]

RECURSIVE Flatten(_)
\* Concatenation of a sequence of token sequences.
Flatten(parts) == IF parts = <<>> THEN <<>> ELSE parts[1] \o Flatten(Tail(parts))

\* ResponseGenerator._fill_template: template.format(**data); on KeyError the
\* template comes back unfilled.
_fill_template(template, data) ==
    IF Range(TemplateSlots(template.intent)) \subseteq DOMAIN data
    THEN <<"template", template.intent, template.language, template.variant>>
            \o Flatten([i \in 1..Len(TemplateSlots(template.intent)) |->
                            data[TemplateSlots(template.intent)[i]]])
    ELSE TemplateText(template)

\* ResponseGenerator._enhance_with_context
_enhance_with_context(response, context, language) ==
    LET r1 == IF "previous_interactions" \in DOMAIN context
                 /\ context["previous_interactions"] # ""
              THEN <<"Continuing our previous conversation, ", Phrasing(language)>>
                       \o response
              ELSE response
    IN  IF "conversation_history" \in DOMAIN context
           /\ context["conversation_history"] # ""
        THEN <<"Based on the conversation history, ", Phrasing(language)>> \o r1
        ELSE r1

\* ResponseGenerator._add_ssml_markup
_add_ssml_markup(text, language) ==
    IF text = <<>> THEN text ELSE <<"<speak>">> \o text \o <<"</speak>">>

\* ResponseGenerator.generate_response; choice is what random.choice draws if
\* it is called.
generate_response(intent, data, language, context, choice) ==
    IF intent \notin TemplateIntents
    THEN _generate_fallback_response(language)
    ELSE IF "error" \in DOMAIN data
    THEN _generate_error_response(language, data["error"])
    ELSE IF "missing_entities" \in DOMAIN data /\ data["missing_entities"] # <<>>
    THEN _generate_missing_entities_response(language, data["missing_entities"])
    ELSE
        LET template == _select_template(intent, language, context, choice)
            response == _fill_template(template, data)
            enhanced == IF context # EmptyDict
                        THEN _enhance_with_context(response, context, language)
                        ELSE response
        IN  _add_ssml_markup(enhanced, language)

-----------------------------------------------------------------------------
(* The gate and the clarification, as a function of the extracted entities *)

Languages == {"ar", "en", "fr"}

EntityTypes == {"date", "time", "service_type", "id"}

\* Extracted entities: any of the types, each with no value or one value.
GateEntities ==
    UNION {[keys -> {<<>>, <<"x">>}] : keys \in SUBSET EntityTypes}

InitGate ==
    /\ InitData!1 /\ InitData!2 /\ InitData!3 /\ InitData!4 /\ InitData!5
    /\ InitData!6 /\ InitData!7 /\ InitData!8 /\ InitData!11 /\ InitData!12
    /\ inp \in [op : {"gate"}, intent : GateIntents \cup {"no_such_intent"},
                entities : GateEntities, language : Languages]
    /\ out = Idle

\* extract_entities checks the required entities of the intent; the composer
\* words the clarification for a non-empty list.
CheckGate ==
    /\ out = Idle
    /\ LET missing == _check_required_entities(inp.intent, inp.entities)
       IN  out' = [op |-> "gate", missing |-> missing,
                   text |-> IF missing # <<>>
                            THEN _generate_missing_entities_response(inp.language,
                                                                     missing)
                            ELSE <<>>]
    /\ UNCHANGED <<cache, now, qobs, sessions, sobs, convs, history, cobs, inp, storage, inflight>>

NextGate == CheckGate

SpecGate == InitGate /\ [][NextGate]_vars

\* The entity types a text names.
NamedIn(text) == Range(text) \cap (EntityTypes \cup {"account_id"})

\* C4: for appointment_booking with only a date extracted, missing_entities is
\* exactly time and service_type; and every clarification names exactly the
\* entity types of its missing_entities list, each once, and none that is
\* satisfied.
C4_ClarificationExact ==
    out.op = "gate" =>
        /\ ( /\ inp.intent = "appointment_booking"
             /\ DOMAIN inp.entities = {"date"}
             /\ inp.entities["date"] # <<>> )
           => /\ Range(out.missing) = {"time", "service_type"}
              /\ Len(out.missing) = 2
        /\ out.missing # <<>> =>
            /\ NamedIn(out.text) = Range(out.missing)
            /\ \A e \in NamedIn(out.text) :
                /\ Cardinality({i \in 1..Len(out.text) : out.text[i] = e}) = 1
                /\ ~(e \in DOMAIN inp.entities /\ inp.entities[e] # <<>>)

\* A booking with only a date was checked and the clarification names time
\* and service_type.
C4_Witness ==
    /\ out.op = "gate"
    /\ inp.intent = "appointment_booking"
    /\ inp.entities = [k \in {"date"} |-> <<"x">>]
    /\ out.missing = <<"time", "service_type">>
    /\ out.text = <<"I need additional information: ", Phrasing(inp.language),
                    "time", Separator(inp.language), "service_type",
                    ". Please provide it.">>

-----------------------------------------------------------------------------
(* main.py: from the gateway's result to the reply of the turn *)

\* conversation contexts of a turn
TurnContexts == {EmptyDict, [previous_interactions |-> "1"]}

InitReply ==
    /\ InitData!1 /\ InitData!2 /\ InitData!3 /\ InitData!4 /\ InitData!5
    /\ InitData!6 /\ InitData!7 /\ InitData!8 /\ InitData!11 /\ InitData!12
    /\ inp \in [op : {"turn"}, query : QueryInputs, language : Languages,
                context : TurnContexts]
    /\ out = Idle

\* handle_inbound_call, lines 163-172: query_data is asked with the intent and
\* the entities, and generate_response composes the reply from what it
\* returned.
ComposeReply ==
    /\ out = Idle
    /\ \E outcome \in BackendOutcomes, choice \in TemplateChoices :
        LET r == query_data(cache, now, inp.query.intent, inp.query.entities, outcome)
        IN  /\ cache' = r.cache
            /\ out' = [op |-> "reply", data |-> r.ret,
                       text |-> generate_response(inp.query.intent, r.ret,
                                                  inp.language, inp.context, choice)]
    /\ UNCHANGED <<now, qobs, sessions, sobs, convs, history, cobs, inp, storage, inflight>>

NextReply == ComposeReply

SpecReply == InitReply /\ [][NextReply]_vars

\* C5: when the gateway's result reports missing entities, the reply of the
\* turn is the clarification that lists them, not the error phrasing.
C5_ClarificationNotError ==
    (out.op = "reply" /\ "missing_entities" \in DOMAIN out.data) =>
        out.text = _generate_missing_entities_response(inp.language,
                                                       out.data["missing_entities"])

-----------------------------------------------------------------------------
(* update_context on contexts and patches that overlap *)

MergeKeys == {"date", "time", "service_type"}

MergeValues == {"v1", "v2"}

\* context arguments: any of the keys, each with one of the values; {} too
MergePatches == UNION {[keys -> MergeValues] : keys \in SUBSET MergeKeys}

MergeContext ==
    \E cid \in ConvArgs, context \in MergePatches :
        /\ convs' = update_context(convs, cid, context).convs
        /\ cobs' = [op |-> "update_context", id |-> cid,
                    ret |-> update_context(convs, cid, context).ret,
                    patch |-> context]
        /\ UNCHANGED <<cache, now, qobs, sessions, sobs, history, inp, out, storage, inflight>>

NextMerge == StartConversation \/ MergeContext

SpecMerge == InitData /\ [][NextMerge]_vars

\* C11: a successful update_context(id, patch) leaves a context in which every
\* key of patch has the patch value, every other key that was there has its
\* previous value, and the keys are those of the old context and of patch.
C11_FieldwiseMerge ==
    [][ (cobs'.op = "update_context" /\ cobs'.ret) =>
        LET old == get_conversation_context(convs, cobs'.id)
            new == get_conversation_context(convs', cobs'.id)
        IN  /\ DOMAIN new = DOMAIN old \cup DOMAIN cobs'.patch
            /\ \A k \in DOMAIN cobs'.patch : new[k] = cobs'.patch[k]
            /\ \A k \in DOMAIN old \ DOMAIN cobs'.patch : new[k] = old[k] ]_vars

\* A patch that holds date only was merged into a context that held date and
\* time: date has the patch value and time is still there.
C11_Witness ==
    /\ cobs.op = "update_context" /\ cobs.ret
    /\ cobs.patch = [k \in {"date"} |-> "v2"]
    /\ get_conversation_context(convs, cobs.id) = [date |-> "v2", time |-> "v1"]

\* C12: no step of the conversation store other than update_context changes
\* the context of a conversation or removes a key from it.
C12_ContextKept ==
    [][ \A cid \in Ids(convs) :
            cobs'.op # "update_context" =>
                get_conversation_context(convs', cid)
                    = get_conversation_context(convs, cid) ]_vars

\* C13: add_transcript, add_response and update_context on an id that is not
\* in the store return False and leave the conversations and the history
\* exactly as they were.
C13_NotFoundNoEffect ==
    [][ ( /\ cobs'.op \in {"add_transcript", "add_response", "update_context"}
          /\ cobs'.id \notin Ids(convs) )
        => /\ cobs'.ret = FALSE
           /\ convs' = convs
           /\ history' = history ]_vars

\* An update_context on an unknown id has just failed while the store holds a
\* conversation with a transcript, a response and a context.
C13_Witness ==
    /\ cobs.op = "update_context" /\ ~cobs.ret
    /\ cobs.id = UnknownConversation
    /\ UnknownConversation \notin Ids(convs)
    /\ \E i \in 1..Len(convs) :
        /\ convs[i][2].transcripts # <<>>
        /\ convs[i][2].responses # <<>>
        /\ convs[i][2].context # EmptyDict

-----------------------------------------------------------------------------
(* services/speech_to_text.py *)

\* Confidences are in hundredths: 0.70 is 70.

\* self.supported_languages
supported_languages == {"ar", "en", "fr", "es", "de"}

\* A language value that is not a str: a JSON list, which cannot be hashed.
UnhashableLanguage == "<list>"

\* What the language-detection service does: it fails, or answers with a
\* language, with one that is not supported, or with a list.
DetectionOutcomes == {None, "en", "xx", UnhashableLanguage}

\* SpeechToTextService._detect_language: the answer, None on any failure.
_detect_language(detection) == detection

\* A failure result that carries no error marker.
SttFailure_NoMarker(service, language, error) ==
    [text |-> "", language |-> language, confidence |-> 0, service |-> service]

\* The dict both backends' wrappers build for a non-200 status and in their
\* `except Exception` branch.
SttFailure(service, language, error) ==
    [text |-> "", language |-> language, confidence |-> 0, service |-> service,
     error |-> error]

\* What a backend does with a request: it answers 200 with a transcript and a
\* confidence (Whisper may leave the confidence out), 200 with a body that
\* lacks the expected fields, another status, or nothing before requests
\* raises (timeout, connection error).
SttTexts == {"", "t1", "t2"}

SttConfidences == {0, 70, 95}

SttFailures ==
    {[kind |-> "status", error |-> "HTTP 500"],
     [kind |-> "raise", error |-> "timeout"],
     [kind |-> "malformed", error |-> "KeyError"]}

GoogleOutcomes ==
    [kind : {"ok"}, text : SttTexts, confidence : SttConfidences] \cup SttFailures

WhisperOutcomes ==
    {o \in [kind : {"ok"}, text : SttTexts, confidence : SttConfidences,
            reported : BOOLEAN] : ~o.reported => o.confidence = 0}
        \cup SttFailures

\* SpeechToTextService._transcribe_with_google
_transcribe_with_google(outcome, language) ==
    IF outcome.kind = "ok"
    THEN [text |-> outcome.text, language |-> language,
          confidence |-> outcome.confidence, service |-> "google"]
    ELSE SttFailure("google", language, outcome.error)

\* SpeechToTextService._transcribe_with_whisper; result.get("confidence", 0.0)
_transcribe_with_whisper(outcome, language) ==
    IF outcome.kind = "ok"
    THEN [text |-> outcome.text, language |-> language,
          confidence |-> IF outcome.reported THEN outcome.confidence ELSE 0,
          service |-> "whisper"]
    ELSE SttFailure("whisper", language, outcome.error)

\* A fusion that takes the lower confidence.
_combine_transcription_results_Lower(google_result, whisper_result) ==
    LET final_result == IF google_result.confidence < whisper_result.confidence
                        THEN google_result ELSE whisper_result
    IN  IF /\ google_result.text # "" /\ whisper_result.text # ""
           /\ google_result.text # whisper_result.text
        THEN Put(final_result, "combined_text",
                 <<google_result.text, " | ", whisper_result.text>>)
        ELSE final_result

\* SpeechToTextService._combine_transcription_results
_combine_transcription_results(google_result, whisper_result) ==
    LET final_result == IF google_result.confidence > whisper_result.confidence
                        THEN google_result ELSE whisper_result
    IN  IF /\ google_result.text # "" /\ whisper_result.text # ""
           /\ google_result.text # whisper_result.text
        THEN Put(final_result, "combined_text",
                 <<google_result.text, " | ", whisper_result.text>>)
        ELSE final_result

\* SpeechToTextService.transcribe_audio_stream: the language test raises
\* TypeError on an unhashable language, which the outer `except Exception`
\* turns into the error dict.
transcribe_audio_stream(language, detection, google, whisper) ==
    LET lang1 == IF language = "auto" /\ _detect_language(detection) # None
                 THEN _detect_language(detection) ELSE language
    IN  IF lang1 = UnhashableLanguage
        THEN [text |-> "", language |-> lang1, confidence |-> 0,
              error |-> "TypeError"]
        ELSE LET lang2 == IF lang1 \notin supported_languages THEN "ar" ELSE lang1
             IN  _combine_transcription_results(
                     _transcribe_with_google(google, lang2),
                     _transcribe_with_whisper(whisper, lang2))

-----------------------------------------------------------------------------
(* Transcription of one audio stream *)

SttLanguages == {"auto", "ar", "xx"}

InitStt ==
    /\ InitData!1 /\ InitData!2 /\ InitData!3 /\ InitData!4 /\ InitData!5
    /\ InitData!6 /\ InitData!7 /\ InitData!8 /\ InitData!11 /\ InitData!12
    /\ inp \in [op : {"stt"}, language : SttLanguages, detection : DetectionOutcomes,
                google : GoogleOutcomes, whisper : WhisperOutcomes]
    /\ out = Idle

Transcribe ==
    /\ out = Idle
    /\ out' = [op |-> "transcribed",
               google |-> _transcribe_with_google(inp.google, "ar"),
               whisper |-> _transcribe_with_whisper(inp.whisper, "ar"),
               fused |-> _combine_transcription_results(
                             _transcribe_with_google(inp.google, "ar"),
                             _transcribe_with_whisper(inp.whisper, "ar")),
               ret |-> transcribe_audio_stream(inp.language, inp.detection,
                                               inp.google, inp.whisper)]
    /\ UNCHANGED <<cache, now, qobs, sessions, sobs, convs, history, cobs, inp, storage, inflight>>

NextStt == Transcribe

SpecStt == InitStt /\ [][NextStt]_vars

\* C14: fusion returns the text and confidence of the result with the strictly
\* higher confidence and, on equal confidences, those of Whisper's result;
\* combined_text is there exactly when both texts are non-empty and differ,
\* and the text is the selected one with or without it.
C14_FusionRule ==
    out.op = "transcribed" =>
        LET g == out.google
            w == out.whisper
            sel == IF g.confidence > w.confidence THEN g ELSE w
        IN  /\ out.fused.text = sel.text
            /\ out.fused.confidence = sel.confidence
            /\ out.fused.service = sel.service
            /\ g.confidence = w.confidence => out.fused.service = "whisper"
            /\ ("combined_text" \in DOMAIN out.fused)
                   <=> (g.text # "" /\ w.text # "" /\ g.text # w.text)

\* Google answered t1 at 0.70 and Whisper t2 at 0.95: the fused result is
\* Whisper's, with the combined_text field.
C14_Witness ==
    /\ out.op = "transcribed"
    /\ out.google.text = "t1" /\ out.google.confidence = 70
    /\ out.whisper.text = "t2" /\ out.whisper.confidence = 95
    /\ out.fused.text = "t2" /\ out.fused.confidence = 95
    /\ "combined_text" \in DOMAIN out.fused

\* C15: when exactly one backend fails and the other answers with a
\* transcript, the result is the text and confidence of the one that answered.
C15_OneBackendFails ==
    out.op = "transcribed" =>
        /\ (inp.google.kind = "ok" /\ inp.whisper.kind # "ok")
            => /\ out.fused.text = out.google.text
               /\ out.fused.confidence = out.google.confidence
               /\ out.fused.service = "google"
        /\ (inp.google.kind # "ok" /\ inp.whisper.kind = "ok")
            => /\ out.fused.text = out.whisper.text
               /\ out.fused.confidence = out.whisper.confidence
               /\ out.fused.service = "whisper"

\* C16: when both backends fail, transcribe_audio_stream returns a dict with
\* empty text, confidence 0 and an error field.
C16_BothFail ==
    (out.op = "transcribed" /\ inp.google.kind # "ok" /\ inp.whisper.kind # "ok") =>
        /\ out.ret.text = ""
        /\ out.ret.confidence = 0
        /\ "error" \in DOMAIN out.ret

\* Google timed out and Whisper answered HTTP 500: the result is the error
\* dict of a backend.
C16_Witness ==
    /\ out.op = "transcribed"
    /\ inp.google.kind = "raise" /\ inp.whisper.kind = "status"
    /\ inp.detection # UnhashableLanguage
    /\ out.ret.text = "" /\ out.ret.confidence = 0
    /\ out.ret.error = "HTTP 500"

-----------------------------------------------------------------------------
(* services/intent_handler.py *)

\* Confidences of the classifier are in 1/6000: One is 1.0, so that every
\* matches / len(keywords) ratio and its 0.7 and 1.2 multiples are integers.
One == 6000

\* 0.5
Half == One \div 2

\* The keys of self.supported_intents, in dict order.
supported_intents ==
    <<"greeting", "goodbye", "appointment_booking", "shipment_inquiry",
      "account_balance", "general_inquiry">>

KeywordLanguages == {"ar", "en", "fr", "es", "de"}

\* len(intent_info["keywords"][language]) for the intents in dict order.
KeywordCounts(language) ==
    CASE language = "ar" -> <<6, 4, 4, 4, 4, 6>>
      [] language = "en" -> <<5, 4, 3, 3, 3, 6>>
      [] language = "fr" -> <<3, 3, 2, 3, 3, 5>>
      [] language = "es" -> <<3, 3, 3, 3, 3, 5>>
      [] language = "de" -> <<3, 3, 2, 3, 3, 6>>

\* A text is what the classifier reads of it: for each intent (in dict order)
\* how many keywords of the language's list occur in it, and its length.
\* A value that is not a str is NoText.
NoText == [matches |-> <<>>, len |-> 0, str |-> FALSE]

\* _clean_text calls re.sub, and the module never imports re: the call raises
\* NameError for every text.
CleanTextRaises(text) == TRUE

\* match_ratio of the i-th intent: matches / len(keywords), times 0.7 for a
\* text shorter than 10, times 1.2 for one longer than 100.
MatchRatio(text, language, i) ==
    LET ratio == (text.matches[i] * One) \div KeywordCounts(language)[i]
    IN  IF text.len < 10 THEN (ratio * 7) \div 10
        ELSE IF text.len > 100 THEN (ratio * 12) \div 10
        ELSE ratio

\* max(intent_scores, key=intent_scores.get): the first intent, in dict order,
\* with the greatest score.
BestIntent(text, language) ==
    CHOOSE i \in 1..Len(supported_intents) :
        /\ \A j \in 1..Len(supported_intents) :
              MatchRatio(text, language, j) <= MatchRatio(text, language, i)
        /\ \A j \in 1..(i - 1) :
              MatchRatio(text, language, j) < MatchRatio(text, language, i)

\* IntentHandler._extract_with_keywords
_extract_with_keywords(text, language) ==
    IF language \in KeywordLanguages
    THEN [intent |-> supported_intents[BestIntent(text, language)],
          confidence |-> MatchRatio(text, language, BestIntent(text, language)),
          source |-> "keywords"]
    ELSE [intent |-> "general_inquiry", confidence |-> Half, source |-> "keywords"]

\* min(a, b)
Min(a, b) == IF a <= b THEN a ELSE b

\* An _enhance_with_context that boosts whatever the previous intent was.
_enhance_with_context_intent_Always(intent, context) ==
    LET boosted == IF "previous_intent" \in DOMAIN context
                   THEN [intent EXCEPT !.confidence = Min((@ * 12) \div 10, One)]
                   ELSE intent
    IN  IF "language" \in DOMAIN context
           /\ ("language" \notin DOMAIN boosted \/ context["language"] # boosted["language"])
        THEN Put(boosted, "language", context["language"])
        ELSE boosted

\* IntentHandler._enhance_with_context; previous_intent is an intent result.
_enhance_with_context_intent(intent, context) ==
    LET boosted == IF /\ "previous_intent" \in DOMAIN context
                      /\ intent.intent = context["previous_intent"].intent
                   THEN [intent EXCEPT !.confidence = Min((@ * 12) \div 10, One)]
                   ELSE intent
    IN  IF "language" \in DOMAIN context
           /\ ("language" \notin DOMAIN boosted \/ context["language"] # boosted["language"])
        THEN Put(boosted, "language", context["language"])
        ELSE boosted

\* What the external NLU (Dialogflow; Rasa is not loaded) does with a request:
\* it fails (exception or non-200), or answers with an intent and a confidence.
NluOutcomes ==
    {[kind |-> "fail"]} \cup
    [kind : {"ok"}, intent : {"shipment_inquiry"}, confidence : {0, (One * 6) \div 10}]

\* IntentHandler._extract_with_pretrained_models: the result, NoRecord for None.
_extract_with_pretrained_models(nlu) ==
    IF nlu.kind = "ok"
    THEN [intent |-> nlu.intent, confidence |-> nlu.confidence, source |-> "dialogflow"]
    ELSE NoRecord

\* The dict of the `except Exception` branch of extract_intent.
IntentExceptResult(error) ==
    [intent |-> "general_inquiry", confidence |-> 0, error |-> error]

\* IntentHandler.extract_intent
extract_intent(text, language, context, nlu) ==
    IF ~text.str THEN IntentExceptResult("TypeError")
    ELSE IF CleanTextRaises(text) THEN IntentExceptResult("NameError")
    ELSE
        LET pre == _extract_with_pretrained_models(nlu)
            intent_result == IF pre = NoRecord
                             THEN _extract_with_keywords(text, language) ELSE pre
        IN  IF context # EmptyDict
            THEN _enhance_with_context_intent(intent_result, context)
            ELSE intent_result

-----------------------------------------------------------------------------
(* Classification of one text *)

\* Texts with no keyword at all, and with one keyword of greeting, of
\* shipment_inquiry or of general_inquiry; short, medium and long; and a long
\* text with five keywords of greeting (all of them in English).
IntentTexts ==
    {[matches |-> <<g, 0, 0, sh, 0, q>>, len |-> l, str |-> TRUE] :
        g \in {0, 1}, sh \in {0, 1}, q \in {0, 1}, l \in {5, 50, 150}}
    \cup {[matches |-> <<5, 0, 0, 0, 0, 0>>, len |-> 150, str |-> TRUE]}
    \cup {NoText}

IntentLanguages == {"en", "ar", "xx"}

\* Results of a classification, as _enhance_with_context receives them.
RawIntents ==
    [intent : {"shipment_inquiry", "general_inquiry"},
     confidence : {0, Half, (One * 6) \div 10, (One * 9) \div 10},
     source : {"keywords"}]

\* Contexts: empty, or with the previous turn's intent result.
IntentContexts ==
    {EmptyDict} \cup
    {[previous_intent |-> [intent |-> i, confidence |-> (One * 6) \div 10,
                           source |-> "keywords"]] :
        i \in {"shipment_inquiry", "account_balance"}}

InitIntent ==
    /\ InitData!1 /\ InitData!2 /\ InitData!3 /\ InitData!4 /\ InitData!5
    /\ InitData!6 /\ InitData!7 /\ InitData!8 /\ InitData!11 /\ InitData!12
    /\ inp \in [op : {"intent"}, text : IntentTexts, language : IntentLanguages,
                nlu : NluOutcomes, raw : RawIntents, context : IntentContexts]
    /\ out = Idle

\* extract_intent on the text, and its two steps on their own: keyword
\* classification of the text and the context step on a classification.
Classify ==
    /\ out = Idle
    /\ inp.op = "intent"
    /\ out' = [op |-> "intent",
               keywords |-> IF inp.text.str
                            THEN _extract_with_keywords(inp.text, inp.language)
                            ELSE NoRecord,
               enhanced |-> _enhance_with_context_intent(inp.raw, inp.context),
               ret |-> extract_intent(inp.text, inp.language, inp.context, inp.nlu)]
    /\ UNCHANGED <<cache, now, qobs, sessions, sobs, convs, history, cobs, inp, storage, inflight>>

NextIntent == Classify

SpecIntent == InitIntent /\ [][NextIntent]_vars

\* Every keyword score of the text is zero for the language.
AllScoresZero(text, language) ==
    language \in KeywordLanguages
        => \A i \in 1..Len(supported_intents) : MatchRatio(text, language, i) = 0

\* C17: keyword classification returns general_inquiry with confidence 0.5
\* when no intent has keywords for the language and when every score is zero;
\* and extract_intent returns general_inquiry with confidence 0.5 when the
\* classification fails.
C17_DefaultIntent ==
    out.op = "intent" =>
        /\ (inp.text.str /\ AllScoresZero(inp.text, inp.language))
            => /\ out.keywords.intent = "general_inquiry"
               /\ out.keywords.confidence = Half
        /\ "error" \in DOMAIN out.ret
            => /\ out.ret.intent = "general_inquiry"
               /\ out.ret.confidence = Half

LanguageOrder == <<"ar", "en", "fr", "es", "de">>

detector_languages == {LanguageOrder[i] : i \in 1..Len(LanguageOrder)}

\* An exception that leaves a helper of the detector.
Raises == "<raise>"

\* A text is its length and, per language of LanguageOrder, the number of its
\* characters the language's pattern matches; str is false for a value that
\* is not a string.  The Latin patterns of fr, es and de contain that of en.
NoDetectText == [str |-> FALSE, len |-> 0, matches |-> <<0, 0, 0, 0, 0>>]

DetectTexts ==
    { NoDetectText,
      [str |-> TRUE, len |-> 0,   matches |-> <<0, 0, 0, 0, 0>>],      \* ""
      [str |-> TRUE, len |-> 5,   matches |-> <<0, 5, 5, 5, 5>>],      \* "hello"
      [str |-> TRUE, len |-> 5,   matches |-> <<5, 0, 0, 0, 0>>],      \* five Arabic letters
      [str |-> TRUE, len |-> 5,   matches |-> <<0, 0, 0, 0, 0>>],      \* "12345"
      [str |-> TRUE, len |-> 4,   matches |-> <<0, 3, 4, 4, 3>>],      \* "cafe" with e acute
      [str |-> TRUE, len |-> 120, matches |-> <<120, 0, 0, 0, 0>> ] }  \* a long Arabic text

\* language_ratio in hundredths: matches / len, times 0.7 below 10 characters
\* and 1.2 above 100.
LanguageRatio(text, i) ==
    IF text.len = 0 THEN 0
    ELSE (text.matches[i] * (IF text.len < 10 THEN 70
                             ELSE IF text.len > 100 THEN 120 ELSE 100)) \div text.len

\* max(language_scores, key=language_scores.get): the first language of the
\* dict with the highest ratio.
_detect_from_text(text) ==
    IF ~text.str THEN Raises
    ELSE LanguageOrder[
           CHOOSE i \in 1..Len(LanguageOrder) :
              /\ \A j \in 1..Len(LanguageOrder) :
                     LanguageRatio(text, j) <= LanguageRatio(text, i)
              /\ \A j \in 1..(i - 1) : LanguageRatio(text, j) < LanguageRatio(text, i)]

\* The audio stream argument: None, or bytes.
AudioStreams == {None, "bytes"}

\* Answers of the audio detection request: a 200 response with a language
\* (None when the key is absent) and a confidence that formats as a number or
\* does not, another status, a response that is not a JSON object, or a
\* transport failure.
AudioDetections ==
    [kind : {"ok"},
     language : {"ar", "en", "fr", "xx", None, UnhashableLanguage},
     numeric : BOOLEAN]
      \cup [kind : {"status", "malformed", "raise"}]

_detect_from_audio_Unchecked(detection) ==
    IF detection.kind # "ok" THEN "ar"
    ELSE IF ~detection.numeric THEN "ar"
    ELSE detection.language

_detect_from_audio(detection) ==
    IF detection.kind # "ok" THEN "ar"
    ELSE IF ~detection.numeric THEN "ar"
    ELSE IF detection.language = UnhashableLanguage THEN "ar"
    ELSE IF detection.language \in detector_languages THEN detection.language
    ELSE "ar"

\* Answers of the confidence request: a 200 response with a confidence that is
\* a number or is not, another status, a response that is not a JSON object,
\* or a transport failure.
ConfidenceAnswers ==
    [kind : {"ok"}, confidence : {0, 50, 70, 90}, numeric : BOOLEAN]
      \cup [kind : {"status", "malformed", "raise"}]

LanguageIndex(language) ==
    CHOOSE i \in 1..Len(LanguageOrder) : LanguageOrder[i] = language

_calculate_text_confidence(text, language) ==
    IF language \notin detector_languages THEN 0
    ELSE LanguageRatio(text, LanguageIndex(language))

\* The returned confidence: a number, or the value of the response's
\* confidence key when that is not a number.
_get_language_confidence(text, language, audio_stream, answer) ==
    IF language \notin detector_languages THEN [numeric |-> TRUE, value |-> 0]
    ELSE IF audio_stream # None /\ answer.kind \in {"malformed", "raise"}
         THEN [numeric |-> TRUE, value |-> 0]
    ELSE IF audio_stream # None /\ answer.kind = "ok"
         THEN [numeric |-> answer.numeric, value |-> answer.confidence]
    ELSE IF text.len > 0
         THEN [numeric |-> TRUE, value |-> _calculate_text_confidence(text, language)]
    ELSE [numeric |-> TRUE, value |-> 0]

EmptyText == [str |-> TRUE, len |-> 0, matches |-> <<0, 0, 0, 0, 0>>]

\* detect_language with the comparison text_confidence >= audio_confidence.
DetectLanguageBody_TextOnTie(text, audio_stream, detection, answer) ==
    LET text_language == _detect_from_text(text)
        audio_language == _detect_from_audio(detection)
        text_confidence == _get_language_confidence(text, text_language, None, answer)
        audio_confidence ==
            _get_language_confidence(EmptyText, audio_language, audio_stream, answer)
    IN  IF text_language = Raises THEN Raises
        ELSE IF audio_stream = None THEN text_language
        ELSE IF text_language = audio_language THEN text_language
        ELSE IF ~audio_confidence.numeric THEN Raises
        ELSE IF text_confidence.value >= audio_confidence.value THEN text_language
        ELSE audio_language

\* detect_language, before its except clause.
DetectLanguageBody(text, audio_stream, detection, answer) ==
    LET text_language == _detect_from_text(text)
        audio_language == _detect_from_audio(detection)
        text_confidence == _get_language_confidence(text, text_language, None, answer)
        audio_confidence ==
            _get_language_confidence(EmptyText, audio_language, audio_stream, answer)
    IN  IF text_language = Raises THEN Raises
        ELSE IF audio_stream = None THEN text_language
        ELSE IF text_language = audio_language THEN text_language
        ELSE IF ~audio_confidence.numeric THEN Raises
        ELSE IF text_confidence.value > audio_confidence.value THEN text_language
        ELSE audio_language

detect_language(text, audio_stream, detection, answer) ==
    IF DetectLanguageBody(text, audio_stream, detection, answer) = Raises THEN "ar"
    ELSE DetectLanguageBody(text, audio_stream, detection, answer)

InitDetect ==
    /\ InitData!1 /\ InitData!2 /\ InitData!3 /\ InitData!4 /\ InitData!5
    /\ InitData!6 /\ InitData!7 /\ InitData!8 /\ InitData!11 /\ InitData!12
    /\ inp \in [op : {"detect"}, text : DetectTexts, audio_stream : AudioStreams,
                detection : AudioDetections, answer : ConfidenceAnswers]
    /\ out = Idle

Detect ==
    /\ out = Idle
    /\ inp.op = "detect"
    /\ out' = [op |-> "detected",
               text_confidence |->
                   IF inp.text.str
                   THEN _calculate_text_confidence(inp.text, _detect_from_text(inp.text))
                   ELSE 0,
               text_language |-> _detect_from_text(inp.text),
               audio |-> _detect_from_audio(inp.detection),
               audio_confidence |->
                   _get_language_confidence(EmptyText, _detect_from_audio(inp.detection),
                                            inp.audio_stream, inp.answer),
               ret |-> detect_language(inp.text, inp.audio_stream,
                                       inp.detection, inp.answer)]
    /\ UNCHANGED <<cache, now, qobs, sessions, sobs, convs, history, cobs, inp, storage, inflight>>

NextDetect == Detect

SpecDetect == InitDetect /\ [][NextDetect]_vars

\* The audio detection did not name a supported language: another status, a
\* failed or malformed response, or a language outside the table.
AudioUnresolved(detection) ==
    \/ detection.kind # "ok"
    \/ detection.language \notin detector_languages

\* C19 as stated: detect_language returns ar for every empty text and for
\* every audio detection that is unknown, unsupported or failed.
C19_DefaultAlways ==
    out.op = "detected" =>
        /\ out.ret \in detector_languages
        /\ (inp.text.str /\ inp.text.len = 0) => out.ret = "ar"
        /\ (inp.audio_stream # None /\ AudioUnresolved(inp.detection)) => out.ret = "ar"

\* C19: detect_language returns a supported language code and never an
\* exception; for an empty text without audio it returns ar; an audio
\* detection that is unknown, unsupported or failed counts as ar, so that the
\* result is then the text's language or ar.
C19_FailClosed ==
    out.op = "detected" =>
        /\ out.ret \in detector_languages
        /\ (inp.text.str /\ inp.text.len = 0 /\ inp.audio_stream = None) => out.ret = "ar"
        /\ AudioUnresolved(inp.detection) => out.audio = "ar"
        /\ (inp.audio_stream # None /\ AudioUnresolved(inp.detection))
              => out.ret \in {_detect_from_text(inp.text), "ar"}
        /\ ~inp.text.str => out.ret = "ar"

\* Digits with an audio stream detected as an unsupported language: ar.
C19_Witness ==
    /\ out.op = "detected"
    /\ inp.text.str /\ inp.text.len = 5 /\ inp.text.matches = <<0, 0, 0, 0, 0>>
    /\ inp.audio_stream # None
    /\ inp.detection.kind = "ok" /\ inp.detection.language = "xx"
    /\ inp.detection.numeric
    /\ out.audio = "ar"
    /\ out.ret = "ar"

\* ---------------------------------------------------------------------------
\* Failures of the data gateway
\* ---------------------------------------------------------------------------

\* query_data with every failure of the backend, on a cache that is filled and
\* cleared.
QueryFailing == Query(FailureOutcomes)

NextFail == QueryFailing \/ ClearCache

SpecFail == InitData /\ [][NextFail]_vars

\* C20: every query_data call returns a dict; for an intent without query
\* definition it is the error dict naming the intent, the backend is not
\* called and the cache stays as it is; when the backend times out, fails in
\* transport, answers with another status than 200 or with a body that is no
\* JSON object, it is an error dict: the timeout message, the text of the
\* transport exception, or the status with the response text as details.
C20_ErrorResults ==
    [][ qobs'.op = "query_data" =>
          /\ qobs'.intent \notin DefinedIntents =>
                /\ qobs'.ret = UnknownIntentResult(qobs'.intent)
                /\ "error" \in DOMAIN qobs'.ret
                /\ ~qobs'.backend /\ ~qobs'.write /\ qobs'.outcome = "none"
                /\ cache' = cache
          /\ qobs'.outcome \in {"http500", "timeout", "transport", "malformed"} =>
                "error" \in DOMAIN qobs'.ret
          /\ qobs'.outcome = "timeout" => qobs'.ret = [error |-> <<"timeout">>]
          /\ qobs'.outcome = "transport" =>
                qobs'.ret = [error |-> <<"transport: ", "connection refused">>]
          /\ qobs'.outcome = "http500" =>
                /\ qobs'.ret.error = <<"status ", "500">>
                /\ "details" \in DOMAIN qobs'.ret
                /\ qobs'.ret.details = <<"body of ", "500">>
      ]_vars

\* A tracking query whose backend answered 500.
C20_Witness ==
    /\ qobs.op = "query_data"
    /\ qobs.intent = "shipment_inquiry"
    /\ qobs.backend
    /\ qobs.outcome = "http500"
    /\ qobs.ret = StatusError("500")

\* ---------------------------------------------------------------------------
\* main.py: webhook turns on the event loop
\* ---------------------------------------------------------------------------

\* The webhook requests the model lets arrive.
RequestOrder == <<"rq-1", "rq-2", "rq-3">>

Requests == Range(RequestOrder)

\* Positions of a request: not yet sent; received and waiting for the event
\* loop; inside handle_twilio_webhook before the session lookup (line 116),
\* after a lookup that found nothing and before create_session (line 120),
\* inside handle_inbound_call before get_last_transcript (line 147), before
\* the reply is composed and synthesised (lines 151-152); answered.
Running == {"session", "create", "transcript", "speech"}

NoTurn == [call |-> None, pc |-> "none", session |-> None, branch |-> None]

\* The handlers are coroutines (async def) whose bodies call the services
\* synchronously and await nothing but each other: once the event loop has
\* started one, it runs no other coroutine until that one has returned.
FreeOfOwnCall(T, r) ==
    /\ T[r].pc = "queued"
    /\ \A r2 \in Requests : T[r2].pc \in Running => T[r2].call # T[r].call

\* An event loop that starts a waiting request at any time.
CanStart_Preemptive(T, r) == T[r].pc = "queued"

CanStart(T, r) ==
    /\ T[r].pc = "queued"
    /\ \A r2 \in Requests : T[r2].pc \notin Running

InitTurn ==
    /\ InitData!1 /\ InitData!2 /\ InitData!3 /\ InitData!4 /\ InitData!5
    /\ InitData!6 /\ InitData!7 /\ InitData!8 /\ InitData!9 /\ InitData!10
    /\ InitData!11
    /\ inflight = [r \in Requests |-> NoTurn]

\* Twilio posts a webhook for a call.
Arrive ==
    \E r \in Requests, call \in CallSids :
        /\ inflight[r].pc = "none"
        /\ inflight' = [inflight EXCEPT ![r] = [NoTurn EXCEPT !.call = call,
                                                              !.pc = "queued"]]
        /\ UNCHANGED <<cache, now, qobs, sessions, sobs, convs, history, cobs,
                       inp, out, storage>>

\* The event loop starts handle_twilio_webhook for a waiting request.
Dispatch ==
    \E r \in Requests :
        /\ CanStart(inflight, r)
        /\ inflight' = [inflight EXCEPT ![r].pc = "session"]
        /\ UNCHANGED <<cache, now, qobs, sessions, sobs, convs, history, cobs,
                       inp, out, storage>>

\* handle_twilio_webhook, lines 116-118: the session of the call is looked up.
ResolveSession ==
    \E r \in Requests :
        /\ inflight[r].pc = "session"
        /\ LET found == get_session_by_call_sid(sessions, inflight[r].call)
           IN  inflight' = IF found = NoRecord
                           THEN [inflight EXCEPT ![r].pc = "create"]
                           ELSE [inflight EXCEPT ![r].pc = "transcript",
                                                 ![r].session = found.session_id]
        /\ UNCHANGED <<cache, now, qobs, sessions, sobs, convs, history, cobs,
                       inp, out, storage>>

\* handle_twilio_webhook, lines 119-126: no session was found, one is created
\* under a new uuid.
CreateForCall ==
    \E r \in Requests :
        /\ inflight[r].pc = "create"
        /\ Ids(sessions) # SessionIds
        /\ sessions' = create_session(sessions, FreshSession(sessions), "+9665",
                                      inflight[r].call, now)
        /\ inflight' = [inflight EXCEPT ![r].pc = "transcript",
                                        ![r].session = FreshSession(sessions)]
        /\ UNCHANGED <<cache, now, qobs, sobs, convs, history, cobs,
                       inp, out, storage>>

\* handle_inbound_call, lines 144-149: the last transcript of the conversation
\* whose id is the session id decides the branch.
ReadTranscript ==
    \E r \in Requests :
        /\ inflight[r].pc = "transcript"
        /\ inflight' = [inflight EXCEPT
               ![r].pc = "speech",
               ![r].branch = IF get_last_transcript(convs, inflight[r].session) = NoRecord
                             THEN "welcome" ELSE "intent"]
        /\ UNCHANGED <<cache, now, qobs, sessions, sobs, convs, history, cobs,
                       inp, out, storage>>

\* handle_inbound_call, lines 151-157 or 160-180: the reply is composed,
\* synthesised and returned.
Speak ==
    \E r \in Requests :
        /\ inflight[r].pc = "speech"
        /\ inflight' = [inflight EXCEPT ![r].pc = "done"]
        /\ UNCHANGED <<cache, now, qobs, sessions, sobs, convs, history, cobs,
                       inp, out, storage>>

NextTurn ==
    Arrive \/ Dispatch \/ ResolveSession \/ CreateForCall \/ ReadTranscript \/ Speak

SpecTurn == InitTurn /\ [][NextTurn]_vars

\* C21: no two requests of one call are inside the handler at the same time,
\* and a waiting request can be started whenever no request of its own call is
\* inside the handler.
C21_TurnIsolation ==
    /\ \A r1, r2 \in Requests :
          (r1 # r2 /\ inflight[r1].pc \in Running /\ inflight[r2].pc \in Running)
              => inflight[r1].call # inflight[r2].call
    /\ \A r \in Requests :
          FreeOfOwnCall(inflight, r) => CanStart(inflight, r)

\* ---------------------------------------------------------------------------
\* The external calls of one turn
\* ---------------------------------------------------------------------------

\* The collaborators a turn calls, in the order of the pipeline:
\* speech_to_text.py lines 109 and 173, language_detector.py line 149,
\* intent_handler.py line 231, entity_extractor.py lines 198-221,
\* data_api.py lines 272-274, text_to_speech.py lines 234, 298, 357.
Collaborators ==
    <<"google_stt", "whisper_stt", "audio_language", "nlu", "entity_service",
      "data_backend", "speech_synthesis">>

\* The call passes timeout= to requests: only DataAPI._execute_query does
\* (timeout=self.timeout); requests waits without limit otherwise.
HasTimeout(c) == c = "data_backend"

\* The call fails before a request is sent: entity_extractor.py uses
\* requests.post without importing requests, and the NameError is caught.
FailsBeforeSending(c) == c = "entity_service"

\* How a collaborator that answers can answer.
Answers == {"ok", "status"}

AfterCall(p, result) ==
    [stage |-> p.stage + 1, phase |-> IF p.stage = Len(Collaborators) THEN "replied"
                                      ELSE "calling",
     silent |-> FALSE, results |-> Append(p.results, result)]

InitCalls ==
    /\ InitData!1 /\ InitData!2 /\ InitData!3 /\ InitData!4 /\ InitData!5
    /\ InitData!6 /\ InitData!7 /\ InitData!8 /\ InitData!9 /\ InitData!10
    /\ InitData!11
    /\ inflight = [stage |-> 1, phase |-> "calling", silent |-> FALSE, results |-> <<>>]

\* The turn reaches the next external call: the request is sent to a
\* collaborator that will answer or that never answers.
SendRequest ==
    /\ inflight.phase = "calling"
    /\ IF FailsBeforeSending(Collaborators[inflight.stage])
       THEN inflight' = AfterCall(inflight, "fallback")
       ELSE \E silent \in BOOLEAN :
               inflight' = [inflight EXCEPT !.phase = "waiting", !.silent = silent]
    /\ UNCHANGED <<cache, now, qobs, sessions, sobs, convs, history, cobs,
                   inp, out, storage>>

\* The collaborator answers: with a result, or with a status the caller
\* replaces by its fallback.
Respond ==
    /\ inflight.phase = "waiting"
    /\ ~inflight.silent
    /\ \E a \in Answers :
          inflight' = AfterCall(inflight, IF a = "ok" THEN "ok" ELSE "fallback")
    /\ UNCHANGED <<cache, now, qobs, sessions, sobs, convs, history, cobs,
                   inp, out, storage>>

\* requests raises Timeout after the call's timeout; the caller continues with
\* its error result.
TimeoutFires ==
    /\ inflight.phase = "waiting"
    /\ inflight.silent
    /\ HasTimeout(Collaborators[inflight.stage])
    /\ inflight' = AfterCall(inflight, "fallback")
    /\ UNCHANGED <<cache, now, qobs, sessions, sobs, convs, history, cobs,
                   inp, out, storage>>

NextCalls == SendRequest \/ Respond \/ TimeoutFires

SpecCalls == InitCalls /\ [][NextCalls]_vars

\* C22: a call that waits for a collaborator that never answers is bounded by
\* a timeout, so that no turn waits for ever.
C22_CallsBounded ==
    (inflight.phase = "waiting" /\ inflight.silent)
        => HasTimeout(Collaborators[inflight.stage])

\* ---------------------------------------------------------------------------
\* main.py: what one webhook turn reads and calls
\* ---------------------------------------------------------------------------

\* The text of a stored transcript as the classifier sees it: a sentence of
\* ordinary length with one keyword of shipment_inquiry.
TranscriptText(text) == [matches |-> <<0, 0, 0, 1, 0, 0>>, len |-> 50, str |-> TRUE]

\* A turn that does not call data_api.query_data.
NoQuery == [called |-> FALSE, ret |-> EmptyDict, read |-> FALSE, backend |-> FALSE]

\* data_api.query_data(intent, entities) as line 164 calls it: intent is the
\* dict extract_intent returned, so `intent not in self.query_definitions`
\* raises TypeError (a dict is unhashable) inside the try, and the except
\* clause returns before the cache or the backend is touched.
DictIntentQuery ==
    [called |-> TRUE, ret |-> ExceptionResult, read |-> FALSE, backend |-> FALSE]

\* handle_inbound_call(session_info): the branch taken, the transcript and
\* context read, the classification, the gateway call and the text handed to
\* speech synthesis.  generate_response receives the classification dict as
\* intent as well, and its own except clause returns the fallback response.
handle_inbound_call(C, session_id, nlu, choice) ==
    LET last_transcript == get_last_transcript(C, session_id)
    IN  IF last_transcript = NoRecord
        THEN [branch |-> "welcome", last |-> NoRecord, context |-> EmptyDict,
              classified |-> NoRecord, query |-> NoQuery,
              response_text |-> generate_response("greeting", EmptyDict, "ar",
                                                  EmptyDict, choice)]
        ELSE [branch |-> "intent", last |-> last_transcript,
              context |-> get_conversation_context(C, session_id),
              classified |-> extract_intent(TranscriptText(last_transcript.text),
                                            last_transcript.language, EmptyDict, nlu),
              query |-> DictIntentQuery,
              response_text |-> _generate_fallback_response(last_transcript.language)]

\* The conversations start_conversation opened for a session.
ConversationsOf(C, session_id) ==
    {i \in 1..Len(C) : C[i][2].session_id = session_id}

\* POST /twilio_webhook: handle_twilio_webhook and the handle_inbound_call it
\* awaits, as one step.
InboundTurn ==
    \E call \in CallSids, nlu \in NluOutcomes, choice \in TemplateChoices :
        LET found == get_session_by_call_sid(sessions, call)
            sid == IF found = NoRecord THEN FreshSession(sessions)
                   ELSE found.session_id
            turn == handle_inbound_call(convs, sid, nlu, choice)
        IN  /\ sessions' = IF found = NoRecord
                           THEN create_session(sessions, sid, "+9665", call, now)
                           ELSE sessions
            /\ out' = [op |-> "turn", call |-> call, session |-> sid,
                       branch |-> turn.branch, last |-> turn.last,
                       context |-> turn.context, classified |-> turn.classified,
                       query |-> turn.query, response_text |-> turn.response_text]
            /\ UNCHANGED <<cache, now, qobs, sobs, convs, history, cobs, inp,
                           storage, inflight>>

\* ConversationManager.start_conversation for a session of the registry.
OpenConversation ==
    /\ Ids(convs) # Range(LifeConvIdOrder)
    /\ \E sid \in Ids(sessions) :
          LET r == start_conversation(convs, history, Fresh(LifeConvIdOrder, convs),
                                      "+9665", sid, now)
          IN  /\ convs' = r.convs
              /\ history' = r.history
    /\ out' = Idle
    /\ UNCHANGED <<cache, now, qobs, sessions, sobs, cobs, inp, storage, inflight>>

\* ConversationManager.add_transcript on a conversation.
AppendTranscript ==
    \E cid \in Ids(convs) :
        /\ Len(history[cid]) < MaxLog
        /\ LET r == add_transcript(convs, history, storage.max_history,
                                   cid, "t1", "ar", 0, now)
           IN  /\ convs' = r.convs
               /\ history' = r.history
        /\ out' = Idle
        /\ UNCHANGED <<cache, now, qobs, sessions, sobs, cobs, inp, storage, inflight>>

\* ConversationManager.update_context on a conversation.
NoteContext ==
    \E cid \in Ids(convs), context \in ContextPatches :
        /\ convs' = update_context(convs, cid, context).convs
        /\ out' = Idle
        /\ UNCHANGED <<cache, now, qobs, sessions, sobs, history, cobs, inp,
                       storage, inflight>>

NextInbound == InboundTurn \/ OpenConversation \/ AppendTranscript \/ NoteContext

SpecInbound == InitData /\ [][NextInbound]_vars

\* The session of the turn has a conversation with a transcript.
SessionHasTranscript ==
    \E i \in ConversationsOf(convs, out.session) : convs[i][2].transcripts # <<>>

\* C23: in a turn whose session has a last transcript (the classified intent,
\* general_inquiry unless the classifier names another, requires entities the
\* transcript supplies), the gateway is called with the intent's name, looks
\* into the cache, and the reply is not the fallback phrase; the gateway call
\* is skipped only for missing entities.
C23_ReachesGateway ==
    (out.op = "turn" /\ SessionHasTranscript) =>
        /\ out.branch = "intent"
        /\ out.query.called
        /\ out.query.read
        /\ "error" \notin DOMAIN out.query.ret
        /\ out.response_text # _generate_fallback_response(out.last.language)

\* C24: a turn of a session whose conversation has a transcript reads that
\* conversation's last transcript and its context and classifies the
\* transcript; the welcome branch is taken only when the session's
\* conversation has no transcript.
C24_ReadsLastTranscript ==
    out.op = "turn" =>
        /\ \A i \in ConversationsOf(convs, out.session) :
              convs[i][2].transcripts # <<>> =>
                  /\ out.branch = "intent"
                  /\ out.last = convs[i][2].transcripts[Len(convs[i][2].transcripts)]
                  /\ out.context = convs[i][2].context
                  /\ out.classified # NoRecord
        /\ out.branch = "welcome" => ~SessionHasTranscript

\* ---------------------------------------------------------------------------
\* Activity of sessions and conversations
\* ---------------------------------------------------------------------------

\* C25: after a webhook turn the session of the turn has the time of the turn
\* as its last_activity, so that turns less than a timeout apart keep the
\* session from being swept.
C25_TurnRefreshesActivity ==
    [][ sobs'.op = "webhook" =>
            Lookup(sessions', sobs'.ret).last_activity = now' ]_vars

\* A transcript or a response was appended to the conversation less than
\* timeout_seconds before t.
RecentAppend(H, conversation_id, timeout_seconds, t) ==
    \E k \in 1..Len(H[conversation_id]) :
        t - H[conversation_id][k].data.timestamp < timeout_seconds

\* C26: the sweep leaves active every conversation to which a transcript or a
\* response was appended less than timeout_seconds ago.
C26_AppendsCountAsActivity ==
    [][ cobs'.op = "cleanup_inactive_conversations" =>
            \A i \in 1..Len(convs) :
                (/\ convs[i][2].status = "active"
                 /\ RecentAppend(history, convs[i][1],
                                 default_conversation_timeout, now))
                    => convs'[i][2].status = "active" ]_vars

\* C27: end_session on a session that is already ended leaves its record as
\* the first end left it, and a session ended by end_session carries the end
\* reason caller-hangup.
C27_EndIdempotent ==
    [][ sobs'.op = "end_session" =>
            \A i \in 1..Len(sessions) :
                /\ sessions[i][2].status = "ended" => sessions'[i] = sessions[i]
                /\ (sessions[i][2].status = "active" /\ sessions'[i][2].status = "ended")
                      => /\ "end_reason" \in DOMAIN sessions'[i][2]
                         /\ sessions'[i][2].end_reason = "caller-hangup" ]_vars

\* ---------------------------------------------------------------------------
\* speech_to_text: the order of the two backend calls
\* ---------------------------------------------------------------------------

\* transcribe_audio_stream, lines 55-61, statement by statement: the request
\* to Google is sent and its result awaited inside _transcribe_with_google
\* (line 55); the same for Whisper (line 58); then the results are combined
\* (line 61).  A backend is idle, started (request sent) or returned (its
\* result or failure dict is there).
InitFusion ==
    /\ InitData!1 /\ InitData!2 /\ InitData!3 /\ InitData!4 /\ InitData!5
    /\ InitData!6 /\ InitData!7 /\ InitData!8 /\ InitData!11
    /\ inp \in [op : {"fusion"}, google : GoogleOutcomes, whisper : WhisperOutcomes]
    /\ out = Idle
    /\ inflight = [pc |-> "google", google |-> "idle", whisper |-> "idle"]

\* line 55 begins: requests.post to Google is sent.
StartGoogle ==
    /\ inflight.pc = "google" /\ inflight.google = "idle"
    /\ inflight' = [inflight EXCEPT !.google = "started"]
    /\ UNCHANGED <<cache, now, qobs, sessions, sobs, convs, history, cobs,
                   inp, out, storage>>

\* line 55 ends: _transcribe_with_google returns its result or failure dict.
GoogleReturns ==
    /\ inflight.pc = "google" /\ inflight.google = "started"
    /\ inflight' = [inflight EXCEPT !.google = "returned", !.pc = "whisper"]
    /\ UNCHANGED <<cache, now, qobs, sessions, sobs, convs, history, cobs,
                   inp, out, storage>>

\* line 58 begins: requests.post to Whisper is sent.
StartWhisper ==
    /\ inflight.pc = "whisper" /\ inflight.whisper = "idle"
    /\ inflight' = [inflight EXCEPT !.whisper = "started"]
    /\ UNCHANGED <<cache, now, qobs, sessions, sobs, convs, history, cobs,
                   inp, out, storage>>

\* line 58 ends: _transcribe_with_whisper returns.
WhisperReturns ==
    /\ inflight.pc = "whisper" /\ inflight.whisper = "started"
    /\ inflight' = [inflight EXCEPT !.whisper = "returned", !.pc = "combine"]
    /\ UNCHANGED <<cache, now, qobs, sessions, sobs, convs, history, cobs,
                   inp, out, storage>>

\* line 61: the two results are combined.
Combine ==
    /\ inflight.pc = "combine"
    /\ inflight' = [inflight EXCEPT !.pc = "done"]
    /\ out' = [op |-> "fused",
               ret |-> _combine_transcription_results(
                           _transcribe_with_google(inp.google, "ar"),
                           _transcribe_with_whisper(inp.whisper, "ar"))]
    /\ UNCHANGED <<cache, now, qobs, sessions, sobs, convs, history, cobs,
                   inp, storage>>

NextFusion == StartGoogle \/ GoogleReturns \/ StartWhisper \/ WhisperReturns \/ Combine

SpecFusion == InitFusion /\ [][NextFusion]_vars

\* C28: when a backend has returned, the other one has been started; and the
\* results are combined only when both have returned.
C28_BackendsOverlap ==
    /\ inflight.google = "returned" => inflight.whisper # "idle"
    /\ inflight.whisper = "returned" => inflight.google # "idle"
    /\ out.op = "fused" => (inflight.google = "returned" /\ inflight.whisper = "returned")

\* ---------------------------------------------------------------------------
\* intent_handler: precedence of the external model, and the score range
\* ---------------------------------------------------------------------------

\* C29: extract_intent on a string returns the external model's result when
\* there is one and the keyword result otherwise, each after the context step
\* when a context is given.
C29_NluThenKeywords ==
    (out.op = "intent" /\ inp.text.str) =>
        LET pre == _extract_with_pretrained_models(inp.nlu)
            base == IF pre # NoRecord THEN pre ELSE out.keywords
        IN  out.ret = IF inp.context # EmptyDict
                      THEN _enhance_with_context_intent(base, inp.context)
                      ELSE base

\* Keyword scoring and language text scoring, side by side.
InitScores == InitIntent \/ InitDetect

NextScores == Classify \/ Detect

SpecScores == InitScores /\ [][NextScores]_vars

\* C30: the confidence of keyword scoring and the confidence of language text
\* scoring lie between 0 and 1 for every text.
C30_ConfidenceRange ==
    /\ (out.op = "intent" /\ inp.text.str) =>
          (out.keywords.confidence >= 0 /\ out.keywords.confidence <= One)
    /\ out.op = "detected" =>
          (out.text_confidence >= 0 /\ out.text_confidence <= 100)

\* ---------------------------------------------------------------------------
\* Resolution of the text and the audio language
\* ---------------------------------------------------------------------------

\* The audio detection named a supported language and its response was usable.
AudioAvailable ==
    /\ inp.audio_stream # None
    /\ ~AudioUnresolved(inp.detection)
    /\ inp.detection.numeric

\* The text's own score for the language detect_language found in it.
TextScore == LanguageRatio(inp.text, LanguageIndex(out.text_language))

\* C31: with an audio-derived language and numeric confidences, detect_language
\* returns the common language when text and audio agree; when they differ it
\* returns the text language if its confidence is strictly higher and the
\* audio language otherwise, so also on a tie.  The text language is the
\* first of ar, en, fr, es, de among the languages with the highest score.
C31_Resolution ==
    (out.op = "detected" /\ inp.text.str) =>
        /\ \A i \in 1..Len(LanguageOrder) :
               /\ LanguageRatio(inp.text, i) <= TextScore
               /\ LanguageRatio(inp.text, i) = TextScore
                     => LanguageIndex(out.text_language) <= i
        /\ (AudioAvailable /\ out.audio_confidence.numeric) =>
               /\ out.audio = inp.detection.language
               /\ out.text_language = out.audio => out.ret = out.audio
               /\ out.text_language # out.audio =>
                      out.ret = IF (IF inp.text.len > 0 THEN TextScore ELSE 0)
                                      > out.audio_confidence.value
                                THEN out.text_language
                                ELSE out.audio

\* A text scoring 70 for fr and es alike is French; an audio detection of en
\* with confidence 70 ties with it and English is returned.
C31_Witness ==
    /\ out.op = "detected"
    /\ inp.text.str /\ inp.text.matches = <<0, 3, 4, 4, 3>>
    /\ AudioAvailable
    /\ inp.detection.language = "en"
    /\ inp.answer.kind = "ok" /\ inp.answer.numeric /\ inp.answer.confidence = 70
    /\ out.text_language = "fr"
    /\ out.audio_confidence.value = 70
    /\ out.ret = "en"

\* ---------------------------------------------------------------------------
\* Template selection
\* ---------------------------------------------------------------------------

\* The languages every entry of self.response_templates has a list for.
TemplateLanguages == {"ar", "en", "fr"}

\* Languages a reply is asked in: es has no templates.
ReplyLanguages == TemplateLanguages \cup {"es"}

\* Data a template is filled from: nothing, or the fields of a shipment.
TemplateData ==
    {EmptyDict,
     [status |-> <<"shipped">>, location |-> <<"Riyadh">>,
      estimated_delivery |-> <<"tomorrow">>]}

InitTemplate ==
    /\ InitData!1 /\ InitData!2 /\ InitData!3 /\ InitData!4 /\ InitData!5
    /\ InitData!6 /\ InitData!7 /\ InitData!8 /\ InitData!11 /\ InitData!12
    /\ inp \in [op : {"compose"}, intent : TemplateIntents,
                language : ReplyLanguages, context : TurnContexts,
                data : TemplateData]
    /\ out = Idle

\* generate_response on data without error or missing entities: the template
\* _select_template returns and the text composed from it.
Compose ==
    /\ out = Idle
    /\ inp.op = "compose"
    /\ \E choice \in TemplateChoices :
          out' = [op |-> "composed",
                  template |-> _select_template(inp.intent, inp.language,
                                                inp.context, choice),
                  text |-> generate_response(inp.intent, inp.data, inp.language,
                                             inp.context, choice)]
    /\ UNCHANGED <<cache, now, qobs, sessions, sobs, convs, history, cobs, inp, storage, inflight>>

NextTemplate == Compose

SpecTemplate == InitTemplate /\ [][NextTemplate]_vars

\* C32: for a language that has templates the template is one of that
\* language's candidates for the intent; with a context it is the first one
\* and the composed text does not depend on the random draw; for a language
\* without templates it is the first template of ar.
C32_TemplateSelection ==
    out.op = "composed" =>
        /\ out.template.intent = inp.intent
        /\ inp.language \in TemplateLanguages =>
               /\ out.template.language = inp.language
               /\ out.template.variant \in TemplateChoices
               /\ inp.context # EmptyDict =>
                      /\ out.template.variant = "1"
                      /\ \A c \in TemplateChoices :
                             generate_response(inp.intent, inp.data, inp.language,
                                               inp.context, c) = out.text
        /\ inp.language \notin TemplateLanguages =>
               /\ out.template.language = "ar"
               /\ out.template.variant = "1"
               /\ out.text = _add_ssml_markup(
                      IF inp.context # EmptyDict
                      THEN _enhance_with_context(_fill_template(out.template, inp.data),
                                                 inp.context, inp.language)
                      ELSE _fill_template(out.template, inp.data), inp.language)

\* A Spanish shipment reply without context is composed from the first
\* Arabic template.
C32_Witness ==
    /\ out.op = "composed"
    /\ inp.intent = "shipment_inquiry" /\ inp.language = "es"
    /\ inp.context = EmptyDict /\ inp.data # EmptyDict
    /\ out.template = [intent |-> "shipment_inquiry", language |-> "ar", variant |-> "1"]

\* ---------------------------------------------------------------------------
\* Error text in replies
\* ---------------------------------------------------------------------------

\* C33: when the gateway's result carries an error that is no report of
\* missing entities, no part of the error string appears in the reply
\* composed for the caller.
C33_NoRawErrorText ==
    (out.op = "reply" /\ "error" \in DOMAIN out.data
        /\ "missing_entities" \notin DOMAIN out.data) =>
        Range(out.text) \cap Range(out.data["error"]) = {}

\* ---------------------------------------------------------------------------
\* Expiry of cache entries
\* ---------------------------------------------------------------------------

\* Two queries that pass the gate and have different cache keys.
ExpiryInputs ==
    { [intent |-> "shipment_inquiry", entities |-> << <<"tracking_id", Scalar("A1")>> >>],
      [intent |-> "shipment_inquiry",
       entities |-> << <<"tracking_id", ListOf(<<"A1", "B2">>)>> >>] }

\* Answers of the backend: a result, a status other than 200, a timeout, a
\* request that could not be sent, a body that is no JSON object.
ExpiryOutcomes ==
    { [kind |-> "ok", body |-> [tracking_number |-> <<"A1">>, eta |-> <<"D1">>]] }
      \cup {[kind |-> k, body |-> EmptyDict] :
                k \in {"http500", "timeout", "transport", "malformed"}}

\* One call of DataAPI.query_data; out records what _get_from_cache found
\* under the key and whether it deleted the entry.
QueryExpiry ==
    \E q \in ExpiryInputs, outcome \in ExpiryOutcomes :
        LET r == query_data(cache, now, q.intent, q.entities, outcome)
            key == _generate_cache_key(q.intent, q.entities)
        IN
        /\ cache' = r.cache
        /\ qobs' = [op |-> "query_data", intent |-> q.intent, entities |-> q.entities,
                    ret |-> r.ret, read |-> r.read, write |-> r.write,
                    backend |-> r.backend, request |-> r.request,
                    outcome |-> IF r.backend THEN outcome.kind ELSE "none"]
        /\ out' = [op |-> "lookup",
                   hit |-> _get_from_cache(cache, key, now).found,
                   evicted |-> key \in DOMAIN cache
                                 /\ key \notin DOMAIN CacheAfterGet(cache, key, now)]
        /\ UNCHANGED <<now, sessions, sobs, convs, history, cobs, inp, storage, inflight>>

\* Time passes; nothing else runs.
TickExpiry ==
    /\ TickWithin(MaxTicks)
    /\ qobs' = Idle
    /\ out' = Idle
    /\ UNCHANGED <<cache, sessions, sobs, convs, history, cobs, inp, storage, inflight>>

NextExpiry == TickExpiry \/ QueryExpiry \/ ClearCache

SpecExpiry == InitData /\ [][NextExpiry]_vars

PatternTypes == {"date", "time", "name"}

\* A text is the entities its patterns match, each with one value; str is
\* false for a value that is not a string.
ExtractTexts ==
    [str : {TRUE}, found : UNION {[keys -> {<<"x">>}] : keys \in SUBSET PatternTypes}]
      \cup {[str |-> FALSE, found |-> EmptyDict]}

\* The intent argument: the name of an intent, or the dict extract_intent
\* returned for it, as main.py passes it.
ExtractIntents ==
    [name : GateIntents \cup {"no_such_intent"}, dict : BOOLEAN]

\* EntityExtractor._extract_with_specialized_models: requests is not imported,
\* so each of the three lookups raises NameError, which the method catches.
_extract_with_specialized_models(intent) == EmptyDict

\* The except branch of extract_entities.
ExtractExceptResult ==
    [entities |-> EmptyDict, missing_entities |-> <<>>, failed |-> TRUE]

\* EntityExtractor.extract_entities: _clean_text raises for a text that is no
\* string, and `intent in self.intent_required_entities` raises for a dict.
extract_entities(text, intent) ==
    IF ~text.str \/ intent.dict THEN ExtractExceptResult
    ELSE LET specialized == IF intent.name \in GateIntents
                            THEN _extract_with_specialized_models(intent.name)
                            ELSE EmptyDict
             all_entities == [k \in DOMAIN text.found \cup DOMAIN specialized |->
                                 IF k \in DOMAIN specialized THEN specialized[k]
                                 ELSE text.found[k]]
         IN  [entities |-> all_entities,
              missing_entities |-> _check_required_entities(intent.name, all_entities),
              failed |-> FALSE]

InitExtract ==
    /\ InitData!1 /\ InitData!2 /\ InitData!3 /\ InitData!4 /\ InitData!5
    /\ InitData!6 /\ InitData!7 /\ InitData!8 /\ InitData!11 /\ InitData!12
    /\ inp \in [op : {"extract"}, text : ExtractTexts, intent : ExtractIntents]
    /\ out = Idle

Extract ==
    /\ out = Idle
    /\ inp.op = "extract"
    /\ out' = [op |-> "extracted", result |-> extract_entities(inp.text, inp.intent)]
    /\ UNCHANGED <<cache, now, qobs, sessions, sobs, convs, history, cobs, inp, storage, inflight>>

NextExtract == Extract

SpecExtract == InitExtract /\ [][NextExtract]_vars

\* C35: in every result of extract_entities a required entity type of the
\* intent is listed as missing exactly when entities holds no non-empty list
\* for it, also when the extraction failed, and the entities the patterns
\* found in a text are returned.
C35_MissingExact ==
    out.op = "extracted" =>
        /\ inp.intent.name \in GateIntents =>
               \A e \in Range(intent_required_entities(inp.intent.name)) :
                   e \in Range(out.result.missing_entities)
                      <=> ~(e \in DOMAIN out.result.entities
                              /\ out.result.entities[e] # <<>>)
        /\ inp.text.str => out.result.entities = inp.text.found

\* ---------------------------------------------------------------------------
\* The extractor's and the gateway's required entities
\* ---------------------------------------------------------------------------

\* Entity types either table asks for, in a fixed order.
AgreeTypeOrder == <<"date", "time", "service_type", "id", "tracking_id", "query">>

\* Entity mappings: any of the types, each with an empty list or one value.
AgreeEntities ==
    UNION {[keys -> {<<>>, <<"x">>}] : keys \in SUBSET Range(AgreeTypeOrder)}

\* The mapping as the dict handed to query_data.
AsQueryEntities(entities) ==
    LET present == SelectSeq(AgreeTypeOrder, LAMBDA k : k \in DOMAIN entities)
    IN  [i \in 1..Len(present) |-> <<present[i], ListOf(entities[present[i]])>>]

InitAgree ==
    /\ InitData!1 /\ InitData!2 /\ InitData!3 /\ InitData!4 /\ InitData!5
    /\ InitData!6 /\ InitData!7 /\ InitData!8 /\ InitData!11 /\ InitData!12
    /\ inp \in [op : {"agree"}, intent : GateIntents \cap DefinedIntents,
                entities : AgreeEntities]
    /\ out = Idle

\* The same entities go through _check_required_entities of the extractor
\* and through the required-params check of query_data.
CheckBoth ==
    /\ out = Idle
    /\ inp.op = "agree"
    /\ out' = [op |-> "agreed",
               missing |-> _check_required_entities(inp.intent, inp.entities),
               gateway |-> GatewayMissing(inp.intent, AsQueryEntities(inp.entities))]
    /\ UNCHANGED <<cache, now, qobs, sessions, sobs, convs, history, cobs, inp, storage, inflight>>

NextAgree == CheckBoth

SpecAgree == InitAgree /\ [][NextAgree]_vars

\* C36: for every intent both tables know and every entity mapping, the
\* extractor's missing_entities is empty exactly when the gateway's
\* required-params check finds nothing missing.
C36_GatesAgree ==
    out.op = "agreed" => (out.missing = <<>> <=> out.gateway = <<>>)

\* ---------------------------------------------------------------------------
\* Cache key and request parameters
\* ---------------------------------------------------------------------------

\* query_data reaches the cache and the request with these entities: nothing
\* required is missing and _build_query_params does not raise.
Requestable(intent, e) ==
    /\ GatewayMissing(intent, e) = <<>>
    /\ ~BuildRaises(intent, e)

\* C37: two entity mappings of one intent that pass the gate and get the same
\* cache key also get the same request parameters from _build_query_params.
C37_KeyDeterminesRequest ==
    ( /\ out.op = "key"
      /\ out.k1 = out.k2
      /\ Requestable(inp.intent, inp.e1)
      /\ Requestable(inp.intent, inp.e2) )
        => _build_query_params(inp.intent, inp.e1)
              = _build_query_params(inp.intent, inp.e2)

\* ---------------------------------------------------------------------------
\* Cached error results
\* ---------------------------------------------------------------------------

\* C38: a query_data call that invokes the backend and gets a result from
\* _execute_query stores that result under its key with the current time,
\* also when the backend timed out, could not be reached or answered with
\* another status than 200; while such an error result is less than
\* cache_ttl old, a call with the same key returns it without invoking the
\* backend.
C38_ErrorsCached ==
    [][ qobs'.op = "query_data" =>
          /\ (qobs'.backend /\ qobs'.outcome \in {"ok", "http500", "timeout", "transport"}) =>
                 /\ qobs'.write
                 /\ LastKey(qobs') \in DOMAIN cache'
                 /\ cache'[LastKey(qobs')] = [data |-> qobs'.ret, timestamp |-> now]
          /\ (qobs'.backend /\ qobs'.outcome \in {"http500", "timeout", "transport"}) =>
                 "error" \in DOMAIN qobs'.ret
          /\ ( /\ SatisfiedQuery(qobs')
               /\ LastKey(qobs') \in DOMAIN cache
               /\ "error" \in DOMAIN cache[LastKey(qobs')].data
               /\ now - cache[LastKey(qobs')].timestamp < cache_ttl ) =>
                 /\ ~qobs'.backend
                 /\ qobs'.ret = cache[LastKey(qobs')].data
                 /\ cache' = cache ]_vars

\* The error of a request that could not be sent, stored earlier, was
\* returned from the cache without a backend call.
C38_Witness ==
    /\ qobs.op = "query_data"
    /\ SatisfiedQuery(qobs)
    /\ ~qobs.backend /\ qobs.read /\ ~qobs.write
    /\ qobs.ret = [error |-> <<"transport: ", "connection refused">>]
    /\ LastKey(qobs) \in DOMAIN cache
    /\ cache[LastKey(qobs)].data = qobs.ret
    /\ cache[LastKey(qobs)].timestamp = 0
    /\ now = cache_ttl - 1

\* ---------------------------------------------------------------------------
\* Concurrent webhooks of one call
\* ---------------------------------------------------------------------------

\* C39: whatever webhook requests arrive and wait together, the store never
\* holds two sessions of one call identifier, and the requests of one call
\* that have resolved their session use the same session.
C39_OneSessionPerCall ==
    /\ \A i, j \in 1..Len(sessions) :
          i # j => sessions[i][2].call_sid # sessions[j][2].call_sid
    /\ \A r1, r2 \in Requests :
          ( /\ inflight[r1].call = inflight[r2].call
            /\ inflight[r1].session # None
            /\ inflight[r2].session # None )
              => inflight[r1].session = inflight[r2].session

\* A second request of the call waits while the first one has looked the
\* session up, found none and is about to create it.
C39_Witness ==
    /\ inflight["rq-1"].pc = "create"
    /\ inflight["rq-2"].pc = "queued"
    /\ inflight["rq-1"].call = inflight["rq-2"].call
    /\ sessions = <<>>

\* ---------------------------------------------------------------------------
\* Ended sessions
\* ---------------------------------------------------------------------------

\* C40: update_session, end_session, cleanup_inactive_sessions and the
\* webhook leave every ended session ended, and the session a webhook runs
\* its turn on is active.
C40_EndedStaysEnded ==
    [][ /\ sobs'.op \in {"update_session", "end_session",
                         "cleanup_inactive_sessions", "webhook"} =>
              \A i \in 1..Len(sessions) :
                  sessions[i][2].status = "ended" =>
                      /\ i <= Len(sessions')
                      /\ sessions'[i][2].status = "ended"
        /\ sobs'.op = "webhook" =>
              Lookup(sessions', sobs'.ret).status = "active" ]_vars

====
